---- MODULE Spec2Model ----
(***************************************************************************)
(* Verification model of the job-agent backend: the heuristic job-posting  *)
(* extractor and the URL/platform classifier (job_description_loader.py),  *)
(* the profile normalizer (profile_normalizer.py) and the modification     *)
(* agent (modificator.py).                                                 *)
(*                                                                         *)
(* Python str values are TLA+ strings (sequences of characters); the       *)
(* character at index i of s is SubSeq(s, i, i).  Python dicts keep their  *)
(* insertion order and are sequences of entries.                           *)
(***************************************************************************)
EXTENDS Integers, Sequences, FiniteSets, TLC

VARIABLES
    \* ---- _parse_html_content(html_content, url) ----
    ex_pc,              \* position inside _parse_html_content
    html_content,       \* argument: the page source
    ex_url,             \* argument: the source URL
    title,              \* local: result of _extract_title, an Optional[str]
    text_content,       \* local: soup.get_text(separator="\n", strip=True)
    responsibilities,   \* local: result of _extract_responsibilities
    requirements,       \* local: result of _extract_requirements
    role_summary,       \* local: result of _extract_role_summary
    company_context,    \* local: result of _extract_company_context
    \* ---- validate_and_analyze_url(url) ----
    va_pc,              \* position inside validate_and_analyze_url
    va_url,             \* argument: the URL
    va_result,          \* the returned dict
    va_detected,        \* what _detect_provider(url) returns for the same URL
    \* ---- ProfileNormalizer.normalize(profile_data) ----
    nz_pc,              \* position inside normalize
    profile_data,       \* argument: the raw profile
    career_variants,    \* local dict of _extract_career_background
    nz_strategy,        \* branches of _extract_career_background that ran
    education_background, \* local of normalize
    motivation,         \* local of normalize
    nz_result,          \* the returned UserProfile
    \* ---- ModificatorAgent.apply_modifications(...) ----
    md_pc,              \* position inside apply_modifications
    original_content,   \* argument
    selected_feedback,  \* argument
    filtered_profile,   \* argument
    llm_replies,        \* what the modification stage answers, call by call
    chain_calls,        \* the inputs of every chain.ainvoke made so far
    validated_result,   \* local
    md_result,          \* the returned ModificationResponse
    \* ---- successive calls of normalize on the caller's dict objects ----
    nz_raw,             \* the raw profiles as the caller built them
    nz_objects,         \* the caller's dict objects as they are now
    nz_call,            \* which object the running call was handed
    nz_returns,         \* what every finished call returned, in order
    \* ---- retry_with_backoff(func, config) ----
    rt_pc,              \* position inside retry_with_backoff
    rt_config,          \* argument: the RetryConfig
    rt_attempt,         \* the loop variable attempt
    rt_trace,           \* how every invocation of func ended, in order
    rt_sleeps,          \* the delays passed to asyncio.sleep, in order
    rt_outcome,         \* what retry_with_backoff returned or raised
    \* ---- JobDescriptionLoader.load(url) ----
    ld_pc,              \* position inside load
    ld_url,             \* argument: the job posting URL
    ld_fetches,         \* the URLs handed to client.get, in order
    ld_response,        \* local: what client.get answered
    ld_outcome,         \* the JobDescription returned or the error raised
    \* ---- generate_cover_letter(request) / answer_question(request) ----
    pl_pc,              \* position inside the chain method
    pl_request,         \* argument: the request
    pl_calls,           \* the collaborator calls made so far, in order
    pl_locals,          \* the locals job_description ... feedback
    pl_outcome,         \* the tuple returned or the exception raised
    \* ---- SessionManager: one JSON file per session ----
    sm_files,           \* storage_path: session id -> the stored JSON document
    sm_timeout,         \* self.session_timeout, in hours
    sm_now,             \* what datetime.utcnow() answers, in hours
    sm_uuids,           \* how many identifiers uuid.uuid4() has handed out
    sm_log,             \* per session created: what add_message was given
                        \* since it was created or cleared, in call order
    sm_deleted,         \* the ids delete_session was called with
    sm_last,            \* the latest call: arguments, storage before, result
    \* ---- ProfileStorageService: profiles.json ----
    ps_data,            \* the stored document: profiles and default_profile_id
    ps_now,             \* what datetime.utcnow() answers, in hours
    ps_uuids,           \* how many identifiers uuid.uuid4() has handed out
    ps_last,            \* the latest call: arguments and result
    \* ---- handle_llm_errors(func): one call of the wrapper ----
    he_pc,              \* position inside wrapper
    he_func,            \* how the wrapped function ends: a value or an exception
    he_outcome,         \* what the wrapper returned or the exception it let out
    \* ---- SessionManager shared by requests that run side by side ----
    cc_files,           \* storage_path: session id -> the stored JSON document
    cc_requests,        \* per request: the method called, the position inside
                        \* it and its local session_data
    cc_deleted          \* delete_session has unlinked the file of the session

exVars == <<ex_pc, html_content, ex_url, title, text_content,
            responsibilities, requirements, role_summary, company_context>>
vaVars == <<va_pc, va_url, va_result, va_detected>>
nzVars == <<nz_pc, profile_data, career_variants, nz_strategy,
            education_background, motivation, nz_result>>
mdVars == <<md_pc, original_content, selected_feedback, filtered_profile,
            llm_replies, chain_calls, validated_result, md_result>>
ncVars == <<nz_raw, nz_objects, nz_call, nz_returns>>
\* the components added after the first four
rtVars == <<rt_pc, rt_config, rt_attempt, rt_trace, rt_sleeps, rt_outcome>>
ldVars == <<ld_pc, ld_url, ld_fetches, ld_response, ld_outcome>>
plVars == <<pl_pc, pl_request, pl_calls, pl_locals, pl_outcome>>
smVars == <<sm_files, sm_timeout, sm_now, sm_uuids, sm_log, sm_deleted, sm_last>>
psVars == <<ps_data, ps_now, ps_uuids, ps_last>>
heVars == <<he_pc, he_func, he_outcome>>
ccVars == <<cc_files, cc_requests, cc_deleted>>
extVars == <<heVars, ccVars>>
svcVars == <<smVars, psVars, extVars>>
auxVars == <<ncVars, rtVars, ldVars, plVars, svcVars>>
vars == <<exVars, vaVars, nzVars, mdVars, auxVars>>

-----------------------------------------------------------------------------
(***************************************************************************)
(* Python str operations                                                   *)
(***************************************************************************)

\* s[i] for a 1-based index; "" outside the string
Ch(s, i) == IF i >= 1 /\ i <= Len(s) THEN SubSeq(s, i, i) ELSE ""

\* s[i-1:j] ; empty when the range is empty
Slice(s, i, j) == IF i > j \/ i > Len(s) THEN "" ELSE SubSeq(s, i, j)

UpperChars == <<"A","B","C","D","E","F","G","H","I","J","K","L","M",
                "N","O","P","Q","R","S","T","U","V","W","X","Y","Z">>
LowerChars == <<"a","b","c","d","e","f","g","h","i","j","k","l","m",
                "n","o","p","q","r","s","t","u","v","w","x","y","z">>
UpperSet == {UpperChars[i] : i \in 1..26}
LowerSet == {LowerChars[i] : i \in 1..26}
DigitSet == {"0","1","2","3","4","5","6","7","8","9"}
SpaceSet == {" ", "\n", "\t", "\r"}

IsUpper(c) == c \in UpperSet
IsLetter(c) == c \in UpperSet \/ c \in LowerSet
IsDigit(c) == c \in DigitSet
IsSpace(c) == c \in SpaceSet

LowerCh(c) == IF c \in UpperSet
              THEN LowerChars[CHOOSE i \in 1..26 : UpperChars[i] = c]
              ELSE c
UpperCh(c) == IF c \in LowerSet
              THEN UpperChars[CHOOSE i \in 1..26 : LowerChars[i] = c]
              ELSE c

RECURSIVE LowerRange(_, _, _)
\* the lower-cased characters i..j of s (split in halves to keep the
\* evaluation shallow)
LowerRange(s, i, j) ==
    IF i > j THEN ""
    ELSE IF i = j THEN LowerCh(Ch(s, i))
    ELSE LowerRange(s, i, (i + j) \div 2) \o LowerRange(s, ((i + j) \div 2) + 1, j)
\* str.lower()
Lower(s) == LowerRange(s, 1, Len(s))

\* the least element of a non-empty set of integers
SetMin(S) == CHOOSE k \in S : \A m \in S : k <= m

\* s.startswith(p, i-1)
StartsWithAt(s, i, p) ==
    /\ i >= 1
    /\ i + Len(p) - 1 <= Len(s)
    /\ Slice(s, i, i + Len(p) - 1) = p
StartsWith(s, p) == StartsWithAt(s, 1, p)

\* p in s
Contains(s, p) == \E i \in 1..(Len(s) - Len(p) + 1) : StartsWithAt(s, i, p)

\* s.find(p, i-1) as a 1-based index, 0 when absent
FindFrom(s, p, i) ==
    LET First(hits) == IF hits = {} THEN 0 ELSE SetMin(hits)
    IN  First({k \in i..(Len(s) - Len(p) + 1) : StartsWithAt(s, k, p)})

RECURSIVE SkipSpace(_, _)
\* first index >= i of s that holds no whitespace (Len(s)+1 when none): \s*
SkipSpace(s, i) ==
    IF i <= Len(s) /\ IsSpace(Ch(s, i)) THEN SkipSpace(s, i + 1) ELSE i

RECURSIVE SkipSpaceBack(_, _)
\* last index <= i of s that holds no whitespace (0 when none)
SkipSpaceBack(s, i) ==
    IF i >= 1 /\ IsSpace(Ch(s, i)) THEN SkipSpaceBack(s, i - 1) ELSE i

\* str.strip()
Strip(s) == Slice(s, SkipSpace(s, 1), SkipSpaceBack(s, Len(s)))

RECURSIVE SplitFrom(_, _, _)
SplitFrom(s, sep, i) ==
    LET CutAt(k) == IF k = 0 THEN <<Slice(s, i, Len(s))>>
                    ELSE <<Slice(s, i, k - 1)>> \o SplitFrom(s, sep, k + Len(sep))
    IN  CutAt(FindFrom(s, sep, i))
\* s.split(sep)
Split(s, sep) == SplitFrom(s, sep, 1)

RECURSIVE Join(_, _)
\* sep.join(parts)
Join(parts, sep) ==
    IF Len(parts) = 0 THEN ""
    ELSE IF Len(parts) = 1 THEN parts[1]
    ELSE parts[1] \o sep \o Join(Tail(parts), sep)

RECURSIVE TitleRange(_, _, _)
TitleRange(s, i, j) ==
    IF i > j THEN ""
    ELSE IF i = j
    THEN (IF IsLetter(Ch(s, i - 1)) THEN LowerCh(Ch(s, i)) ELSE UpperCh(Ch(s, i)))
    ELSE TitleRange(s, i, (i + j) \div 2) \o TitleRange(s, ((i + j) \div 2) + 1, j)
\* str.title(): the first letter of every run of letters is upper-cased and
\* the other letters are lower-cased
TitleCase(s) == TitleRange(s, 1, Len(s))

\* the elements of a sequence
Range(seq) == {seq[i] : i \in 1..Len(seq)}

\* seq[:n]
Take(seq, n) == IF Len(seq) <= n THEN seq ELSE SubSeq(seq, 1, n)

\* Optional[str]: None is the empty sequence, a str s is <<s>>
None == <<>>
Some(s) == <<s>>
IsNone(o) == Len(o) = 0
\* Python truthiness of an Optional[str]: None and "" are falsy
Truthy(o) == Len(o) = 1 /\ Len(o[1]) > 0

-----------------------------------------------------------------------------
(***************************************************************************)
(* The section regular expressions.  Every pattern of the loader and of    *)
(* the normalizer has the shape                                            *)
(*     HEADER:?\s*\n?(.*?)(?:\n\n|\n[A-Z]|$)                               *)
(* where HEADER is literal text with at most one optional character.  A    *)
(* header is a sequence of parts [s, opt] written in lower case, since the *)
(* patterns are compiled with re.IGNORECASE.                               *)
(***************************************************************************)
Lit(s) == [s |-> s, opt |-> FALSE]
Opt(s) == [s |-> s, opt |-> TRUE]

RECURSIVE HeaderEnd(_, _, _, _)
\* index after the header when the parts from k on match tl at i, else 0;
\* an optional part is greedy: taken when present
HeaderEnd(tl, i, header, k) ==
    IF k > Len(header) THEN i
    ELSE IF StartsWithAt(tl, i, header[k].s)
         THEN HeaderEnd(tl, i + Len(header[k].s), header, k + 1)
         ELSE IF header[k].opt THEN HeaderEnd(tl, i, header, k + 1) ELSE 0

\* [A-Z] under re.IGNORECASE matches the letters of both cases
MatchesAZ(c) == IsLetter(c)

\* $ at index q: with re.DOTALL (no MULTILINE) the end of the text or just
\* before a final newline; with re.MULTILINE the end of any line
AtDollar(text, q, multiline) ==
    \/ q = Len(text) + 1
    \/ IF multiline THEN Ch(text, q) = "\n"
       ELSE q = Len(text) /\ Ch(text, q) = "\n"

\* the terminator (?:\n\n|\n[A-Z]|$) matches at q
TermAt(text, q, multiline) ==
    \/ Ch(text, q) = "\n" /\ Ch(text, q + 1) = "\n"
    \/ Ch(text, q) = "\n" /\ MatchesAZ(Ch(text, q + 1))
    \/ AtDollar(text, q, multiline)

\* number of characters the terminator consumes at q
TermLen(text, q) ==
    IF Ch(text, q) = "\n" /\ (Ch(text, q + 1) = "\n" \/ MatchesAZ(Ch(text, q + 1)))
    THEN 2 ELSE 0

\* the match of one pattern that starts at index i, as [ok, group, end];
\* (.*?) is lazy: the group ends at the first index where the terminator
\* matches; without re.DOTALL the dot stops at a newline, where $ matches
MatchAt(text, tl, header, i, multiline) ==
    LET Group(st, q) == [ok |-> TRUE, group |-> Slice(text, st, q - 1),
                         end |-> q + TermLen(text, q)]
        Body(st) == Group(st, SetMin({k \in st..(Len(text) + 1) :
                                        TermAt(text, k, multiline)}))
        After(h) == IF h = 0 THEN [ok |-> FALSE, group |-> "", end |-> i]
                    ELSE Body(SkipSpace(text, IF Ch(text, h) = ":" THEN h + 1 ELSE h))
    IN  After(HeaderEnd(tl, i, header, 1))

RECURSIVE FindAllFrom(_, _, _, _, _)
FindAllFrom(text, tl, header, pos, multiline) ==
    LET Rest(mt) == <<mt.group>> \o FindAllFrom(text, tl, header, mt.end, multiline)
        Next1(starts) == IF starts = {} THEN <<>>
                         ELSE Rest(MatchAt(text, tl, header, SetMin(starts), multiline))
    IN  Next1({k \in pos..Len(text) : HeaderEnd(tl, k, header, 1) # 0})

\* re.findall(pattern, text, re.IGNORECASE | flag): the groups of the
\* non-overlapping matches, left to right
FindAll(header, text, multiline) == FindAllFrom(text, Lower(text), header, 1, multiline)

-----------------------------------------------------------------------------
(***************************************************************************)
(* Thresholds of the loader                                                *)
(***************************************************************************)
MinItemLen == 10        \* a list item is kept when len(cleaned_line) > 10
MaxListItems == 10      \* responsibilities[:10], requirements[:10]
MinSummaryLen == 50     \* a summary section is used when len(summary) > 50
MinContextLen == 30     \* a company section is used when len(context) > 30
MinLineLen == 20        \* a line enters the synthesized summary when len > 20
MaxSummaryLines == 3    \* the synthesized summary takes the first 3 lines
MinTitleLen == 5        \* a title candidate is accepted when len(title) > 5

-----------------------------------------------------------------------------
(***************************************************************************)
(* urllib.parse.urlparse, as far as the loader reads its result: the       *)
(* scheme, the netloc, and the ValueError("Invalid IPv6 URL") it raises    *)
(* for a netloc with an unmatched square bracket.  The URLs of the model   *)
(* hold at most one bracket and no whitespace.                             *)
(***************************************************************************)
SchemeChar(c) == IsLetter(c) \/ IsDigit(c) \/ c \in {"+", "-", "."}

\* the first index from `from` on of s that holds one of chars, Len(s)+1
\* when there is none
FirstOf(s, chars, from) ==
    SetMin({k \in from..(Len(s) + 1) : k = Len(s) + 1 \/ Ch(s, k) \in chars}
           \cup {Len(s) + 1})

UrlParse(url) ==
    LET Result(scheme, netloc, after) ==
            [raises |-> Contains(netloc, "[") # Contains(netloc, "]"),
             scheme |-> scheme,
             netloc |-> netloc,
             path   |-> Slice(after, 1, FirstOf(after, {"?", "#"}, 1) - 1)]
        \* the netloc runs from after "//" to e
        SplitNetloc(scheme, rest, e) ==
            IF StartsWith(rest, "//")
            THEN Result(scheme, Slice(rest, 3, e - 1), Slice(rest, e, Len(rest)))
            ELSE Result(scheme, "", rest)
        \* colon is the end of the scheme, 0 when the URL has none
        SplitScheme(colon) ==
            IF colon = 0 THEN SplitNetloc("", url, FirstOf(url, {"/", "?", "#"}, 3))
            ELSE SplitNetloc(Lower(Slice(url, 1, colon - 1)),
                             Slice(url, colon + 1, Len(url)),
                             FirstOf(url, {"/", "?", "#"}, colon + 3) - colon)
        SchemeEnd(colon) ==
            IF /\ colon > 1
               /\ IsLetter(Ch(url, 1))
               /\ \A k \in 1..(colon - 1) : SchemeChar(Ch(url, k))
            THEN colon ELSE 0
    IN  SplitScheme(SchemeEnd(FindFrom(url, ":", 1)))

-----------------------------------------------------------------------------
(***************************************************************************)
(* BeautifulSoup(html_content, "html.parser") for flat pages: a sequence   *)
(* of elements <name attrs>text</name> and of bare text between them.  The *)
(* soup is the sequence of its elements [name, attrs, text]; bare text has *)
(* the name "".                                                            *)
(***************************************************************************)
RECURSIVE SoupFrom(_, _)
SoupFrom(s, i) ==
    IF i > Len(s) THEN <<>>
    ELSE IF Ch(s, i) = "<" /\ FindFrom(s, ">", i) # 0
    THEN LET \* k is the index of the closing tag, 0 when it is missing
             Element(gt, name, attrs, k) ==
                 IF k = 0
                 THEN <<[name |-> name, attrs |-> attrs, text |-> Slice(s, gt + 1, Len(s))]>>
                 ELSE <<[name |-> name, attrs |-> attrs, text |-> Slice(s, gt + 1, k - 1)]>>
                      \o SoupFrom(s, k + Len(name) + 3)
             Close(gt, name, attrs) ==
                 Element(gt, name, attrs,
                         FindFrom(Lower(s), "</" \o name \o ">", gt + 1))
             \* inner is the text between < and >, sp its first space
             Tag(gt, inner, sp) ==
                 Close(gt,
                       Lower(IF sp = 0 THEN inner ELSE Slice(inner, 1, sp - 1)),
                       IF sp = 0 THEN "" ELSE Slice(inner, sp + 1, Len(inner)))
             Inner(gt, inner) == Tag(gt, inner, FindFrom(inner, " ", 1))
             Open(gt) == Inner(gt, Slice(s, i + 1, gt - 1))
         IN  Open(FindFrom(s, ">", i))
    ELSE LET Bare(e) == <<[name |-> "", attrs |-> "", text |-> Slice(s, i, e - 1)]>>
                        \o SoupFrom(s, e)
         IN  Bare(FirstOf(s, {"<"}, i + 1))

BeautifulSoup(html) == SoupFrom(html, 1)

\* for script in soup(["script", "style"]): script.decompose()
Decompose(soup) == SelectSeq(soup, LAMBDA el : el.name \notin {"script", "style"})

\* element.get_text(strip=True) of a flat element
ElementText(el) == Strip(el.text)

RECURSIVE NonEmptyTexts(_)
NonEmptyTexts(soup) ==
    IF Len(soup) = 0 THEN <<>>
    ELSE LET NonEmpty(t) == IF t = "" THEN <<>> ELSE <<t>>
         IN  NonEmpty(ElementText(soup[1])) \o NonEmptyTexts(Tail(soup))

\* soup.get_text(separator="\n", strip=True): the stripped non-empty strings
\* of the page joined by newlines
GetText(soup) == Join(NonEmptyTexts(soup), "\n")

\* the selectors of _extract_title, in the order they are tried
TitleSelectors == <<"h1", ".job-title", ".position-title",
                    "[data-testid=\"job-title\"]", "title">>

SelectorMatches(sel, el) ==
    CASE sel = "h1" -> el.name = "h1"
      [] sel = "title" -> el.name = "title"
      [] sel = ".job-title" -> el.name # "" /\ el.attrs = "class=\"job-title\""
      [] sel = ".position-title" -> el.name # "" /\ el.attrs = "class=\"position-title\""
      [] OTHER -> el.name # "" /\ el.attrs = "data-testid=\"job-title\""

\* soup.select_one(sel): the first matching element, as a sequence of
\* length 0 or 1
SelectOne(soup, sel) ==
    LET hits == SelectSeq(soup, LAMBDA el : SelectorMatches(sel, el))
    IN  Take(hits, 1)

RECURSIVE TitleBySelector(_, _)
\* the loop over title_selectors, from selector k on
TitleBySelector(soup, k) ==
    IF k > Len(TitleSelectors) THEN None
    ELSE LET Accept(texts) ==
                 IF Len(texts) = 1 /\ Len(texts[1]) > MinTitleLen
                 THEN Some(texts[1])
                 ELSE TitleBySelector(soup, k + 1)
             TextOf(found) == [j \in 1..Len(found) |-> ElementText(found[j])]
         IN  Accept(TextOf(SelectOne(soup, TitleSelectors[k])))

\* the fallback of _extract_title on the page <title>
TitleFromPageTitle(soup) ==
    LET Accept(t) == IF Len(t) > MinTitleLen THEN Some(t) ELSE None
        First(parts) == Strip(parts[1])
        Last(parts) == Strip(parts[Len(parts)])
        Clean(title_text) ==
            IF Contains(title_text, "|") THEN Accept(First(Split(title_text, "|")))
            ELSE IF Contains(title_text, "-") THEN Accept(Last(Split(title_text, "-")))
            ELSE Accept(title_text)
        Page(page) == IF Len(page) = 0 THEN None ELSE Clean(ElementText(page[1]))
    IN  Page(SelectOne(soup, "title"))

ExtractTitle(soup) ==
    LET OrFallback(t) == IF ~IsNone(t) THEN t ELSE TitleFromPageTitle(soup)
    IN  OrFallback(TitleBySelector(soup, 1))

-----------------------------------------------------------------------------
(***************************************************************************)
(* Section extraction                                                      *)
(***************************************************************************)
\* the bullet characters of r"^[-\*\•]\s*" that are ASCII
BulletSet == {"-", "*"}

\* re.sub(r"^[-\*\•]\s*", "", line)
StripBullet(line) ==
    IF Ch(line, 1) \in BulletSet
    THEN Slice(line, SkipSpace(line, 2), Len(line))
    ELSE line

\* re.sub(r"^\d+\.?\s*", "", line)
StripNumber(line) ==
    IF ~IsDigit(Ch(line, 1)) THEN line
    ELSE LET AfterDigits(d) ==
                 Slice(line, SkipSpace(line, IF Ch(line, d) = "." THEN d + 1 ELSE d),
                       Len(line))
         IN  AfterDigits(SetMin({k \in 2..(Len(line) + 1) : ~IsDigit(Ch(line, k))}))

CleanLine(line) == StripNumber(StripBullet(Strip(line)))

\* the test of _parse_list_items that keeps a cleaned line
KeepItem(cleaned) ==
    /\ Len(cleaned) > MinItemLen
    /\ ~StartsWith(cleaned, "http")
    /\ ~StartsWith(cleaned, "www.")

RECURSIVE CleanKept(_)
CleanKept(lines) ==
    IF Len(lines) = 0 THEN <<>>
    ELSE LET Kept(cleaned) == IF KeepItem(cleaned) THEN <<cleaned>> ELSE <<>>
         IN  Kept(CleanLine(lines[1])) \o CleanKept(Tail(lines))

ParseListItems(text) == CleanKept(Split(text, "\n"))

RECURSIVE ItemsOfMatches(_)
ItemsOfMatches(matches) ==
    IF Len(matches) = 0 THEN <<>>
    ELSE ParseListItems(matches[1]) \o ItemsOfMatches(Tail(matches))

RECURSIVE ItemsOfPatterns(_, _)
\* the nested loop "for pattern ... for match ... extend(items)"
ItemsOfPatterns(patterns, text) ==
    IF Len(patterns) = 0 THEN <<>>
    ELSE ItemsOfMatches(FindAll(patterns[1], text, FALSE))
         \o ItemsOfPatterns(Tail(patterns), text)

RECURSIVE Dedup(_)
\* the distinct non-empty elements, in the order of their first occurrence
Dedup(items) ==
    IF Len(items) = 0 THEN <<>>
    ELSE LET Add(front, last) ==
                 IF last = "" \/ last \in Range(front) THEN front
                 ELSE Append(front, last)
         IN  Add(Dedup(SubSeq(items, 1, Len(items) - 1)), items[Len(items)])

\* list(set(filter(None, items))): a set of str iterates in an order fixed
\* by the hash seed of the process; seed k gives the k-th rotation
ListOfSet(items, seed) ==
    LET Rotate(d) == IF Len(d) = 0 THEN <<>>
                     ELSE [i \in 1..Len(d) |-> d[((i - 1 + seed) % Len(d)) + 1]]
    IN  Rotate(Dedup(items))

resp_patterns ==
    << <<Lit("responsibilitie"), Opt("s")>>,
       <<Lit("what you"), Opt("'"), Lit("ll do")>>,
       <<Lit("role responsibilities")>>,
       <<Lit("key responsibilities")>> >>

req_patterns ==
    << <<Lit("requirement"), Opt("s")>>,
       <<Lit("what you need")>>,
       <<Lit("qualifications")>>,
       <<Lit("skills required")>>,
       <<Lit("you have")>> >>

summary_patterns ==
    << <<Lit("about the role")>>,
       <<Lit("job summary")>>,
       <<Lit("position summary")>>,
       <<Lit("overview")>> >>

company_patterns ==
    << <<Lit("about us")>>,
       <<Lit("about the company")>>,
       <<Lit("who we are")>>,
       <<Lit("company description")>> >>

\* mutant of ExtractResponsibilities: the [:10] cut is missing
ExtractResponsibilities_NoCap(text, seed) ==
    ListOfSet(ItemsOfPatterns(resp_patterns, text), seed)

ExtractResponsibilities(text, seed) ==
    Take(ListOfSet(ItemsOfPatterns(resp_patterns, text), seed), MaxListItems)

ExtractRequirements(text, seed) ==
    Take(ListOfSet(ItemsOfPatterns(req_patterns, text), seed), MaxListItems)

RECURSIVE StrippedMatches(_, _)
\* the stripped groups of all matches of all patterns, in loop order
StrippedMatches(patterns, text) ==
    IF Len(patterns) = 0 THEN <<>>
    ELSE LET StripAll(matches) == [i \in 1..Len(matches) |-> Strip(matches[i])]
         IN  StripAll(FindAll(patterns[1], text, FALSE))
             \o StrippedMatches(Tail(patterns), text)

\* the first stripped match longer than minLen, as an Optional[str]
FirstLongMatch(patterns, text, minLen) ==
    Take(SelectSeq(StrippedMatches(patterns, text), LAMBDA m : Len(m) > minLen), 1)

\* the first 3 stripped lines of the text that are longer than 20
SubstantialLines(text) ==
    LET StripAll(lines) == [i \in 1..Len(lines) |-> Strip(lines[i])]
    IN  Take(SelectSeq(StripAll(Split(text, "\n")), LAMBDA l : Len(l) > MinLineLen),
             MaxSummaryLines)

\* mutant of ExtractRoleSummary: the first section match is returned without
\* the test len(summary) > 50
ExtractRoleSummary_NoLengthCheck(text, t) ==
    LET Summary(found) ==
            IF Len(found) = 1 THEN found[1]
            ELSE "This is a " \o (IF Truthy(t) THEN t[1] ELSE "job")
                 \o " position requiring specific skills and experience."
    IN  Summary(Take(StrippedMatches(summary_patterns, text), 1))

ExtractRoleSummary(text, t) ==
    LET Synthesize(substantial_lines) ==
            IF Truthy(t) /\ Len(substantial_lines) > 0
            THEN t[1] \o ". " \o Join(substantial_lines, " ")
            ELSE "This is a " \o (IF Truthy(t) THEN t[1] ELSE "job")
                 \o " position requiring specific skills and experience."
        Summary(found) == IF Len(found) = 1 THEN found[1]
                          ELSE Synthesize(SubstantialLines(text))
    IN  Summary(FirstLongMatch(summary_patterns, text, MinSummaryLen))

\* domain_hints of _extract_company_context, as (domain, name) pairs
domain_hints ==
    << <<"linkedin.com", "LinkedIn">>, <<"indeed.com", "Indeed">>,
       <<"glassdoor.com", "Glassdoor">>, <<"monster.com", "Monster">>,
       <<"dice.com", "Dice">>, <<"ziprecruiter.com", "ZipRecruiter">> >>

\* _extract_company_context: [raises, value]; the ValueError of urlparse is
\* not caught
ExtractCompanyContext(text, url) ==
    LET Hinted(domain, hints) ==
            IF Len(hints) > 0
            THEN [raises |-> FALSE,
                  value |-> "This position is posted on " \o hints[1][2]
                            \o ", a leading job platform."]
            ELSE [raises |-> FALSE,
                  value |-> "This is a position at "
                            \o TitleCase(Split(domain, ".")[1]) \o "."]
        OfDomain(domain) ==
            Hinted(domain, SelectSeq(domain_hints, LAMBDA h : h[1] = domain))
        OfNetloc(netloc) ==
            OfDomain(IF StartsWith(netloc, "www.") THEN Slice(netloc, 5, Len(netloc))
                     ELSE netloc)
        FromUrl(parsed) == IF parsed.raises THEN [raises |-> TRUE, value |-> ""]
                           ELSE OfNetloc(Lower(parsed.netloc))
        Context(found) == IF Len(found) = 1 THEN [raises |-> FALSE, value |-> found[1]]
                          ELSE FromUrl(UrlParse(url))
    IN  Context(FirstLongMatch(company_patterns, text, MinContextLen))

-----------------------------------------------------------------------------
(***************************************************************************)
(* Inputs of the extractor                                                 *)
(***************************************************************************)
MaxElems == 2       \* a page holds up to MaxElems elements of ElemPool
MaxItems == 12      \* a list page holds up to MaxItems distinct bullets
MaxSeed == 1        \* hash seeds 0..MaxSeed

ElemPool ==
    << "<h1>Senior Backend Engineer</h1>",
       "<p>Responsibilities:\n- Build APIs\n- Write code</p>",
       "<title>Data Engineer | Acme</title>",
       "<script>var responsibilities = 1;</script>",
       "<p>Requirements:\n- 5 years of Python experience\n- Strong SQL skills\nhttp://example.com/apply-now-please</p>",
       "<p>About the role: You will join a small team that builds and runs the data platform</p>",
       "<p>About us:\nWe are a small team building data tools.</p>",
       "<p>We build reliable data platforms for everyone.</p>",
       "<p>Overview:</p>",
       "<div class=\"job-title\">Data Platform Lead</div>" >>

RECURSIVE PagesOfLen(_)
\* the pages made of exactly n elements of the pool
PagesOfLen(n) ==
    IF n = 0 THEN {""}
    ELSE {p \o ElemPool[k] : p \in PagesOfLen(n - 1), k \in 1..Len(ElemPool)}

Digits == "0123456789"
Num2(k) == Ch(Digits, (k \div 10) + 1) \o Ch(Digits, (k % 10) + 1)
ItemLine(k) == "- Task number " \o Num2(k) \o " of the role"

\* a page with one section of n distinct bullets, the whole list repeated
\* when dup
ListPage(header, n, dup) ==
    LET lines == [k \in 1..n |-> ItemLine(k)]
    IN  "<p>" \o header \o "\n"
        \o Join(IF dup THEN lines \o lines ELSE lines, "\n") \o "</p>"

ListPages ==
    {ListPage(h, n, d) : h \in {"Responsibilities:", "Qualifications:"},
                         n \in 0..MaxItems, d \in BOOLEAN}

MaxLines == 2       \* a section page holds up to MaxLines lines under its header

\* lines that can stand under a section header: a bullet, a line that starts
\* with a lowercase letter, a numbered line, a line that starts with a capital
SectionLines ==
    << "- Build and run data pipelines",
       "maintain the reporting warehouse",
       "2. Review code of the team",
       "Benefits include a pension plan" >>
SectionHeaders == {"Responsibilities:", "Requirements:"}
LineChoices == UNION {[1..n -> 1..Len(SectionLines)] : n \in 1..MaxLines}

\* a page with one section: the header, then the chosen lines
SectionPage(header, choice) ==
    "<p>" \o header \o "\n"
    \o Join([i \in 1..Len(choice) |-> SectionLines[choice[i]]], "\n") \o "</p>"

SectionPages == {SectionPage(h, c) : h \in SectionHeaders, c \in LineChoices}

HtmlInputs == UNION {PagesOfLen(n) : n \in 0..MaxElems} \cup ListPages \cup SectionPages

UrlInputs == {"https://www.indeed.com/viewjob?jk=1",
              "https://careers.acme.com/jobs/1",
              "http://[bad",
              "manual",
              ""}

-----------------------------------------------------------------------------
(***************************************************************************)
(* JobDescriptionLoader._parse_html_content(html_content, url)             *)
(***************************************************************************)
ExIdle ==
    /\ ex_pc = "idle"
    /\ html_content = ""
    /\ ex_url = ""
    /\ title = None
    /\ text_content = ""
    /\ responsibilities = <<>>
    /\ requirements = <<>>
    /\ role_summary = ""
    /\ company_context = ""

ExInit ==
    /\ ex_pc = "start"
    /\ html_content \in HtmlInputs
    /\ ex_url \in UrlInputs
    /\ title = None
    /\ text_content = ""
    /\ responsibilities = <<>>
    /\ requirements = <<>>
    /\ role_summary = ""
    /\ company_context = ""

\* lines 244-254: parse, drop script/style, extract the title and the text
ParseSoup ==
    /\ ex_pc = "start"
    /\ \E soup \in {Decompose(BeautifulSoup(html_content))} :
           /\ title' = ExtractTitle(soup)
           /\ text_content' = GetText(soup)
    /\ ex_pc' = "parsed"
    /\ UNCHANGED <<vaVars, nzVars, mdVars, auxVars>>
    /\ UNCHANGED <<html_content, ex_url, responsibilities, requirements,
                   role_summary, company_context>>

\* lines 257-258: the two list sections
ExtractLists ==
    /\ ex_pc = "parsed"
    /\ \E seed \in 0..MaxSeed :
          /\ responsibilities' = ExtractResponsibilities(text_content, seed)
          /\ requirements' = ExtractRequirements(text_content, seed)
    /\ ex_pc' = "lists"
    /\ UNCHANGED <<vaVars, nzVars, mdVars, auxVars>>
    /\ UNCHANGED <<html_content, ex_url, title, text_content,
                   role_summary, company_context>>

\* line 259
ExtractSummary ==
    /\ ex_pc = "lists"
    /\ role_summary' = ExtractRoleSummary(text_content, title)
    /\ ex_pc' = "summary"
    /\ UNCHANGED <<vaVars, nzVars, mdVars, auxVars>>
    /\ UNCHANGED <<html_content, ex_url, title, text_content,
                   responsibilities, requirements, company_context>>

\* lines 260-268: the company context, then the result dict is returned;
\* an exception of _extract_company_context leaves _parse_html_content
ExtractCompany ==
    /\ ex_pc = "summary"
    /\ \E r \in {ExtractCompanyContext(text_content, ex_url)} :
           /\ company_context' = r.value
           /\ ex_pc' = IF r.raises THEN "raised" ELSE "done"
    /\ UNCHANGED <<vaVars, nzVars, mdVars, auxVars>>
    /\ UNCHANGED <<html_content, ex_url, title, text_content,
                   responsibilities, requirements, role_summary>>

ExNext == ParseSoup \/ ExtractLists \/ ExtractSummary \/ ExtractCompany

-----------------------------------------------------------------------------
(***************************************************************************)
(* URL validation and platform detection                                   *)
(***************************************************************************)
\* the domains _is_valid_url blocks
BlockedDomains == <<"facebook.com", "twitter.com", "instagram.com", "youtube.com">>

\* any(x in s for x in items)
AnyIn(items, s) == \E i \in 1..Len(items) : Contains(s, items[i])

\* mutant of IsValidUrl: the social-media domains are not blocked
IsValidUrl_NoBlocklist(url) ==
    LET All(parsed) == ~parsed.raises /\ parsed.scheme # "" /\ parsed.netloc # ""
    IN  All(UrlParse(url))

\* _is_valid_url: the bare except turns the ValueError of urlparse into False
IsValidUrl(url) ==
    LET All(parsed) == /\ ~parsed.raises
                       /\ parsed.scheme # "" /\ parsed.netloc # ""
                       /\ ~AnyIn(BlockedDomains, Lower(url))
    IN  All(UrlParse(url))

\* SUPPORTED_PLATFORMS, in the order of the dict
SUPPORTED_PLATFORMS ==
    << [key |-> "indeed", domains |-> <<"indeed.com">>, requires_login |-> FALSE,
        recommendation |-> "Excellent - works reliably"],
       [key |-> "glassdoor", domains |-> <<"glassdoor.com">>, requires_login |-> FALSE,
        recommendation |-> "Good - usually works well"],
       [key |-> "linkedin", domains |-> <<"linkedin.com">>, requires_login |-> TRUE,
        recommendation |-> "Requires login - try copying job description instead"],
       [key |-> "monster", domains |-> <<"monster.com">>, requires_login |-> FALSE,
        recommendation |-> "Good - generally works well"],
       [key |-> "dice", domains |-> <<"dice.com">>, requires_login |-> FALSE,
        recommendation |-> "Good - usually works"],
       [key |-> "ziprecruiter", domains |-> <<"ziprecruiter.com">>, requires_login |-> FALSE,
        recommendation |-> "Good - works well"],
       [key |-> "company_careers", domains |-> <<>>, requires_login |-> FALSE,
        recommendation |-> "Excellent - direct from company sites"] >>

CareerPatterns == <<"careers", "jobs", "join", "work-at">>

\* the platform entry at which the loop of _detect_provider and of
\* _get_platform_info stops when its domains are looked up in `where`
\* (0 when the loop runs to its end)
FirstPlatform(url_lower, where) ==
    LET First(hits) == IF hits = {} THEN 0 ELSE SetMin(hits)
    IN  First({i \in 1..Len(SUPPORTED_PLATFORMS) :
                 IF SUPPORTED_PLATFORMS[i].key = "company_careers"
                 THEN AnyIn(CareerPatterns, url_lower)
                 ELSE AnyIn(SUPPORTED_PLATFORMS[i].domains, where)})

ProviderName(i) ==
    IF SUPPORTED_PLATFORMS[i].key = "company_careers" THEN "Company Career Page"
    ELSE TitleCase(SUPPORTED_PLATFORMS[i].key)

\* _detect_provider: [raises, value]; the domains are looked up in the netloc
DetectProvider(url) ==
    LET Name(domain, i) ==
            IF i # 0 THEN ProviderName(i)
            ELSE IF Contains(domain, "linkedin") THEN "LinkedIn"
            ELSE IF Contains(domain, "indeed") THEN "Indeed"
            ELSE IF Contains(domain, "glassdoor") THEN "Glassdoor"
            ELSE "Unknown Platform"
        OfDomain(domain) ==
            [raises |-> FALSE,
             value |-> Name(domain, FirstPlatform(Lower(url), domain))]
        OfParsed(parsed) == IF parsed.raises THEN [raises |-> TRUE, value |-> ""]
                            ELSE OfDomain(Lower(parsed.netloc))
    IN  OfParsed(UrlParse(url))

PlatformTips(key) ==
    CASE key = "company_careers" ->
            <<"Direct company sites usually work best",
              "Excellent choice - these work reliably">>
      [] key = "linkedin" ->
            <<"LinkedIn requires account login for most job details",
              "Try copying the job description text instead",
              "Use the \"Share\" link if available">>
      [] key = "indeed" ->
            <<"Indeed works reliably with direct job URLs",
              "Make sure the URL includes the job ID">>
      [] OTHER -> <<>>

\* _get_platform_info, called on a URL urlparse accepts: the domains are
\* looked up in the whole lower-cased URL
GetPlatformInfo(url) ==
    LET Info(provider, url_lower, i) ==
            IF i = 0
            THEN [provider |-> IF provider = "" THEN "Unknown" ELSE provider,
                  requires_login |-> FALSE,
                  recommendation |-> "May work - try it and see",
                  tips |-> <<>>]
            ELSE [provider |-> ProviderName(i),
                  requires_login |-> SUPPORTED_PLATFORMS[i].requires_login,
                  recommendation |-> SUPPORTED_PLATFORMS[i].recommendation,
                  tips |-> PlatformTips(SUPPORTED_PLATFORMS[i].key)]
        Lookup(provider, url_lower) ==
            Info(provider, url_lower, FirstPlatform(url_lower, url_lower))
    IN  Lookup(DetectProvider(url).value, Lower(url))

\* validate_and_analyze_url: the returned dict, a record with the keys set
ValidateAndAnalyzeUrl(url) ==
    IF ~IsValidUrl(url)
    THEN [valid |-> FALSE,
          error |-> "Invalid URL format. Please provide a complete URL starting with http:// or https://",
          platform_info |-> None]
    ELSE LET Analysis(info) ==
                 [valid |-> TRUE,
                  platform_info |-> info,
                  warnings |-> IF ~info.requires_login THEN <<>>
                               ELSE <<"This appears to be a " \o info.provider
                                      \o " URL, which may require login.">>]
         IN  Analysis(GetPlatformInfo(url))

\* the URLs handed to the classifier: scheme, host and path put together
SchemeInputs == {"https://", "HTTP://", "ftp://", ""}
HostInputs == {"facebook.com", "www.twitter.com", "m.instagram.com", "YouTube.com",
               "www.indeed.com", "linkedin.com", "jobs.monster.com",
               "www.glassdoor.com", "dice.com", "www.ziprecruiter.com",
               "acme.com", "careers.google.com", "unknown-job-site.com",
               "[bad", ""}
PathInputs == {"", "/jobs/post123", "/careers/engineer",
               "/careers?ref=indeed.com", "/view/123"}
VaUrlInputs == {s \o h \o p : s \in SchemeInputs, h \in HostInputs, p \in PathInputs}

VaInit ==
    /\ va_pc = "start"
    /\ va_url \in VaUrlInputs
    /\ va_result = <<>>
    /\ va_detected = <<>>

\* a call of validate_and_analyze_url(va_url)
ValidateAndAnalyze ==
    /\ va_pc = "start"
    /\ va_result' = ValidateAndAnalyzeUrl(va_url)
    /\ va_pc' = "validated"
    /\ UNCHANGED <<va_url, va_detected>>
    /\ UNCHANGED <<exVars, nzVars, mdVars, auxVars>>

\* a call of _detect_provider(va_url) on the same URL
DetectProviderCall ==
    /\ va_pc = "validated"
    /\ va_detected' = DetectProvider(va_url)
    /\ va_pc' = "done"
    /\ UNCHANGED <<va_url, va_result>>
    /\ UNCHANGED <<exVars, nzVars, mdVars, auxVars>>

VaNext == ValidateAndAnalyze \/ DetectProviderCall

-----------------------------------------------------------------------------
(***************************************************************************)
(* Raw profiles.  A profile is decoded JSON: a value is a str, a list, a   *)
(* dict or None, written here as a record [t, s, kids] where kids is the   *)
(* sequence of the entries [k, v] of a dict in insertion order, or of the  *)
(* items of a list (with k = "").  The strings of the model hold no quote  *)
(* and no backslash, and the keys of a dict are distinct.                  *)
(***************************************************************************)
Str(s) == [t |-> "str", s |-> s, kids |-> <<>>]
Null == [t |-> "none", s |-> "", kids |-> <<>>]
Entry(k, v) == [k |-> k, v |-> v]
List(items) == [t |-> "list", s |-> "",
                kids |-> [i \in 1..Len(items) |-> Entry("", items[i])]]
Dict(entries) == [t |-> "dict", s |-> "", kids |-> entries]

\* key in d
HasKey(d, key) == \E i \in 1..Len(d.kids) : d.kids[i].k = key
\* d[key]
Get(d, key) == d.kids[CHOOSE i \in 1..Len(d.kids) : d.kids[i].k = key].v

\* bool(value)
PyTruthy(v) ==
    CASE v.t = "str" -> v.s # ""
      [] v.t = "none" -> FALSE
      [] OTHER -> Len(v.kids) > 0

\* repr() of a str without quotes: a newline is written as backslash n
ReprStr(s) == "'" \o Join(Split(s, "\n"), "\\n") \o "'"

RECURSIVE PyRepr(_)
\* repr(value)
PyRepr(v) ==
    CASE v.t = "str" -> ReprStr(v.s)
      [] v.t = "none" -> "None"
      [] v.t = "list" ->
            "[" \o Join([i \in 1..Len(v.kids) |-> PyRepr(v.kids[i].v)], ", ") \o "]"
      [] OTHER ->
            "{" \o Join([i \in 1..Len(v.kids) |->
                            ReprStr(v.kids[i].k) \o ": " \o PyRepr(v.kids[i].v)], ", ")
                \o "}"

\* str(value)
PyStr(v) == IF v.t = "str" THEN v.s ELSE PyRepr(v)

\* '\n'.join(str(item) for item in value)
JoinItems(v) == Join([i \in 1..Len(v.kids) |-> PyStr(v.kids[i].v)], "\n")

\* str(i) for 0 <= i < 100
IntStr(i) == IF i < 10 THEN Ch(Digits, i + 1) ELSE Num2(i)

RECURSIVE FlattenKids(_, _, _)
\* the inner function flatten of _flatten_profile_to_text, from entry i on:
\* the text parts it appends
FlattenKids(obj, prefix, i) ==
    IF i > Len(obj.kids) THEN <<>>
    ELSE LET Label(key) ==
                 IF obj.kids[i].v.t \in {"dict", "list"}
                 THEN FlattenKids(obj.kids[i].v, prefix \o key \o ": ", 1)
                 ELSE <<prefix \o key \o ": " \o PyStr(obj.kids[i].v)>>
         IN  Label(IF obj.t = "dict" THEN obj.kids[i].k ELSE "Item " \o IntStr(i))
             \o FlattenKids(obj, prefix, i + 1)

\* _flatten_profile_to_text
FlattenProfileToText(profile) == Join(FlattenKids(profile, "", 1), "\n")

-----------------------------------------------------------------------------
(***************************************************************************)
(* ProfileNormalizer                                                       *)
(***************************************************************************)
\* the keys of career_variants, in the order of the dict
Variants == <<"data_science", "data_engineering", "computer_vision", "cto">>
VariantSet == Range(Variants)

CAREER_KEYWORDS ==
    [data_science |->
        <<"data scientist", "data science", "machine learning", "ml engineer",
          "ai engineer", "artificial intelligence", "data analyst", "analytics">>,
     data_engineering |->
        <<"data engineer", "data engineering", "etl", "data pipeline",
          "big data", "hadoop", "spark", "kafka", "data warehouse">>,
     computer_vision |->
        <<"computer vision", "cv engineer", "image processing", "opencv",
          "tensorflow", "pytorch", "deep learning", "neural networks", "cnn">>,
     cto |->
        <<"cto", "chief technology officer", "technical leader", "tech lead",
          "engineering manager", "vp engineering", "head of engineering",
          "director of engineering", "technical director">>]

\* career_variants as _extract_career_background initializes it
EmptyVariants == [v \in VariantSet |-> None]

\* any(variants.values())
AnyVariant(variants) == \E v \in VariantSet : Truthy(variants[v])

\* the index of the first variant with a keyword in text_lower, 0 when none:
\* the loop "for variant, keywords in CAREER_KEYWORDS.items(): ... break"
VariantOf(text_lower) ==
    LET First(hits) == IF hits = {} THEN 0 ELSE SetMin(hits)
    IN  First({i \in 1..Len(Variants) :
                 AnyIn(CAREER_KEYWORDS[Variants[i]], text_lower)})

\* the index of empty_variants[0], 0 when no variant is None
FirstEmpty(variants) ==
    LET First(hits) == IF hits = {} THEN 0 ELSE SetMin(hits)
    IN  First({i \in 1..Len(Variants) : IsNone(variants[Variants[i]])})

career_keys == <<"career", "career_background", "background", "experience",
                 "work_experience", "professional_experience", "roles", "positions">>

\* _find_career_data as an Optional value: <<>> is None
FindCareerData(profile) ==
    LET Nested(hits) == IF Len(hits) > 0 THEN <<hits[1].v>> ELSE <<>>
        ByKey(present) ==
            IF Len(present) > 0 THEN <<Get(profile, present[1])>>
            ELSE Nested(SelectSeq(profile.kids,
                            LAMBDA e : /\ e.v.t = "dict"
                                       /\ Contains(Lower(PyStr(e.v)), "career")))
    IN  ByKey(SelectSeq(career_keys, LAMBDA key : HasKey(profile, key)))

\* lines 76-89: the value one variant takes from the keys of a dict
VariantFromKeys(career_data, variant, old) ==
    LET Pick(matching_keys) ==
            IF Len(matching_keys) > 0 THEN Some(PyStr(matching_keys[1].v))
            ELSE IF HasKey(career_data, variant)
                 THEN Some(PyStr(Get(career_data, variant)))
                 ELSE old
    IN  Pick(SelectSeq(career_data.kids,
                       LAMBDA e : AnyIn(CAREER_KEYWORDS[variant], Lower(e.k))))

\* _distribute_list_to_variants
DistributeListToVariants(items, variants) ==
    LET \* the items of variant idx; idx = 0 gives unassigned_items
        Group(items_text, idx) ==
            SelectSeq(items_text, LAMBDA item : VariantOf(Lower(item)) = idx)
        Assign(old, items_list) ==
            IF Len(items_list) > 0 THEN Some(Join(items_list, "\n")) ELSE old
        Spread(assigned, unassigned_items, e) ==
            IF Len(unassigned_items) > 0 /\ e # 0
            THEN [assigned EXCEPT ![Variants[e]] = Some(Join(unassigned_items, "\n"))]
            ELSE assigned
        Rest(assigned, unassigned_items) ==
            Spread(assigned, unassigned_items, FirstEmpty(assigned))
        All(items_text) ==
            Rest([v \in VariantSet |->
                    Assign(variants[v],
                           Group(items_text,
                                 CHOOSE i \in 1..Len(Variants) : Variants[i] = v))],
                 Group(items_text, 0))
    IN  All([i \in 1..Len(items.kids) |-> PyStr(items.kids[i].v)])

\* the greatest element of a non-empty set of integers
SetMax(S) == CHOOSE k \in S : \A m \in S : m <= k

\* the index after the separator \n\s*\n|;;|## that starts at i, 0 when none
\* starts there; \s* is greedy, so the separator ends at the last newline of
\* the whitespace that follows
SepEnd(text, i) ==
    LET End(newlines) ==
            IF Ch(text, i) = "\n" /\ newlines # {} THEN SetMax(newlines) + 1
            ELSE IF StartsWithAt(text, i, ";;") \/ StartsWithAt(text, i, "##")
                 THEN i + 2
                 ELSE 0
    IN  End({k \in (i + 1)..(SkipSpace(text, i + 1) - 1) : Ch(text, k) = "\n"})

RECURSIVE ReSplitFrom(_, _)
ReSplitFrom(text, pos) ==
    LET Cut(starts) ==
            IF starts = {} THEN <<Slice(text, pos, Len(text))>>
            ELSE <<Slice(text, pos, SetMin(starts) - 1)>>
                 \o ReSplitFrom(text, SepEnd(text, SetMin(starts)))
    IN  Cut({k \in pos..Len(text) : SepEnd(text, k) # 0})

\* re.split(r'\n\s*\n|;;|##', text)
SplitSections(text) == ReSplitFrom(text, 1)

\* the body of the loop of _distribute_text_to_variants for one section
AssignSection(section, variants) ==
    LET Place(i, e) ==
            IF i # 0 THEN [variants EXCEPT ![Variants[i]] = Some(Strip(section))]
            ELSE IF ~AnyVariant(variants) /\ e # 0
                 THEN [variants EXCEPT ![Variants[e]] = Some(Strip(section))]
                 ELSE variants
    IN  Place(VariantOf(Lower(section)), FirstEmpty(variants))

RECURSIVE DistributeSections(_, _)
DistributeSections(sections, variants) ==
    IF Len(sections) = 0 THEN variants
    ELSE DistributeSections(Tail(sections), AssignSection(sections[1], variants))

\* _distribute_text_to_variants
DistributeTextToVariants(text, variants) ==
    DistributeSections(SplitSections(text), variants)

\* _search_entire_profile
SearchEntireProfile(profile, variants) ==
    DistributeTextToVariants(FlattenProfileToText(profile), variants)

\* the branch lines 73-96 take: which stage assigns the variants
StrategyOf(career_data) ==
    IF Len(career_data) = 0 \/ ~PyTruthy(career_data[1]) THEN "none"
    ELSE CASE career_data[1].t = "dict" -> "direct_key"
           [] career_data[1].t = "list" -> "list"
           [] career_data[1].t = "str" -> "text"
           [] OTHER -> "none"

\* lines 63-96: career_variants after the explicit career section is used
VariantsFromCareerData(career_data) ==
    CASE StrategyOf(career_data) = "direct_key" ->
            [v \in VariantSet |-> VariantFromKeys(career_data[1], v, None)]
      [] StrategyOf(career_data) = "list" ->
            DistributeListToVariants(career_data[1], EmptyVariants)
      [] StrategyOf(career_data) = "text" ->
            DistributeTextToVariants(career_data[1].s, EmptyVariants)
      [] OTHER -> EmptyVariants

\* CareerBackground(**kwargs): the model declares the single field careers
\* (default: an empty dict) and ignores every other keyword
CareerBackground(kwargs) ==
    [careers |-> IF "careers" \in DOMAIN kwargs THEN kwargs["careers"] ELSE <<>>]

education_keys == <<"education", "education_background", "academic_background",
                    "degrees", "university", "college", "school">>
education_patterns == << <<Lit("education")>>, <<Lit("degree")>>, <<Lit("university")>> >>
motivation_keys == <<"motivation", "goals", "objectives", "why", "interest", "passion",
                     "career_goals", "aspirations", "purpose">>
motivation_patterns == << <<Lit("motivation")>>, <<Lit("goals")>>, <<Lit("why")>> >>

RECURSIVE FirstPatternMatch(_, _, _)
\* the loop "for pattern in patterns: matches = re.findall(...); if matches:
\* return matches[0].strip()", with the default when no pattern matches
FirstPatternMatch(patterns, all_text, default) ==
    IF Len(patterns) = 0 THEN default
    ELSE LET Found(matches) ==
                 IF Len(matches) > 0 THEN Strip(matches[1])
                 ELSE FirstPatternMatch(Tail(patterns), all_text, default)
         IN  Found(FindAll(patterns[1], all_text, TRUE))

\* the common body of _extract_education_background and _extract_motivation
ExtractByKeyOrPattern(profile, keys, patterns, default) ==
    LET Value(value) == IF value.t = "list" THEN JoinItems(value) ELSE PyStr(value)
        ByKey(present) ==
            IF Len(present) > 0 THEN Value(Get(profile, present[1]))
            ELSE FirstPatternMatch(patterns, FlattenProfileToText(profile), default)
    IN  ByKey(SelectSeq(keys, LAMBDA key : HasKey(profile, key)))

ExtractEducationBackground(profile) ==
    ExtractByKeyOrPattern(profile, education_keys, education_patterns,
                          "Education background not specified.")

ExtractMotivation(profile) ==
    ExtractByKeyOrPattern(profile, motivation_keys, motivation_patterns,
                          "Motivation not specified.")

\* the raw profiles handed to normalize: up to MaxEntries entries of the pool
MaxEntries == 2

EntryPool ==
    << Entry("data pipeline experience",
             Str("Built nightly batch jobs for the finance team")),
       Entry("notes",
             Str("Worked with Spark on large clusters\n\nLikes hiking and chess")),
       Entry("career",
             Dict(<< Entry("data_science", Str("Trained ranking models")),
                     Entry("CV Engineer at Acme", Str("Built a defect detector")) >>)),
       Entry("experience",
             List(<< Str("Data engineer at Acme"), Str("Tech lead at Beta"),
                     Str("Volunteer at a shelter") >>)),
       Entry("background",
             Str("Computer vision research;;Led a team of ten\n \nData analyst at Gamma")),
       Entry("education", Str("MSc in Physics")),
       Entry("summary",
             Str("Education: BSc in Math\nGoals: build useful tools\nlikes tea")),
       Entry("goals", List(<< Str("Learn"), Str("Grow") >>)),
       Entry("career", Str("")),
       Entry("profile", Dict(<< Entry("career", Str("Kafka streams")) >>)),
       Entry("roles", Str("Gardener##Baker")),
       Entry("positions", Str("Volunteer at a shelter;;Built Kafka consumers")) >>

RECURSIVE EntriesOfLen(_)
\* the sequences of n pool entries with distinct keys
EntriesOfLen(n) ==
    IF n = 0 THEN {<<>>}
    ELSE UNION {{Append(es, EntryPool[k]) :
                    k \in {j \in 1..Len(EntryPool) :
                             \A i \in 1..Len(es) : es[i].k # EntryPool[j].k}} :
                es \in EntriesOfLen(n - 1)}

ProfileInputs == {Dict(es) : es \in UNION {EntriesOfLen(n) : n \in 0..MaxEntries}}

-----------------------------------------------------------------------------
(***************************************************************************)
(* ProfileNormalizer.normalize(profile_data)                               *)
(***************************************************************************)
NzIdle ==
    /\ nz_pc = "idle"
    /\ profile_data = Dict(<<>>)
    /\ career_variants = EmptyVariants
    /\ nz_strategy = <<>>
    /\ education_background = ""
    /\ motivation = ""
    /\ nz_result = <<>>

NzInit ==
    /\ nz_pc = "start"
    /\ profile_data \in ProfileInputs
    /\ career_variants = EmptyVariants
    /\ nz_strategy = <<>>
    /\ education_background = ""
    /\ motivation = ""
    /\ nz_result = <<>>

\* lines 63-96: the explicit career section, when there is one; nz_strategy
\* records the stage that ran
UseCareerData ==
    /\ nz_pc = "start"
    /\ \E career_data \in {FindCareerData(profile_data)} :
          /\ career_variants' = VariantsFromCareerData(career_data)
          /\ nz_strategy' = <<StrategyOf(career_data)>>
    /\ nz_pc' = "assigned"
    /\ UNCHANGED <<profile_data, education_background, motivation, nz_result>>
    /\ UNCHANGED <<exVars, vaVars, mdVars, auxVars>>

\* lines 98-100: the fallback on the whole profile
SearchProfile ==
    /\ nz_pc = "assigned"
    /\ IF ~AnyVariant(career_variants)
       THEN /\ career_variants' = SearchEntireProfile(profile_data, career_variants)
            /\ nz_strategy' = Append(nz_strategy, "global_fallback")
       ELSE UNCHANGED <<career_variants, nz_strategy>>
    /\ nz_pc' = "searched"
    /\ UNCHANGED <<profile_data, education_background, motivation, nz_result>>
    /\ UNCHANGED <<exVars, vaVars, mdVars, auxVars>>

\* line 102: _extract_career_background returns CareerBackground(**career_variants)
BuildCareerBackground ==
    /\ nz_pc = "searched"
    /\ nz_result' = [career_background |-> CareerBackground(career_variants)]
    /\ nz_pc' = "career"
    /\ UNCHANGED <<profile_data, career_variants, nz_strategy,
                   education_background, motivation>>
    /\ UNCHANGED <<exVars, vaVars, mdVars, auxVars>>

\* ExtractEducation with value = profile_data.pop(key) in place of
\* profile_data[key]: the caller's dict loses its education entry
ExtractEducation_PopsKey ==
    /\ nz_pc = "career"
    /\ education_background' = ExtractEducationBackground(profile_data)
    /\ profile_data' =
          Dict(SelectSeq(profile_data.kids,
                         LAMBDA e : \A i \in 1..Len(education_keys) : e.k # education_keys[i]))
    /\ nz_pc' = "education"
    /\ UNCHANGED <<career_variants, nz_strategy, motivation, nz_result>>
    /\ UNCHANGED <<exVars, vaVars, mdVars, auxVars>>

\* line 48
ExtractEducation ==
    /\ nz_pc = "career"
    /\ education_background' = ExtractEducationBackground(profile_data)
    /\ nz_pc' = "education"
    /\ UNCHANGED <<profile_data, career_variants, nz_strategy, motivation, nz_result>>
    /\ UNCHANGED <<exVars, vaVars, mdVars, auxVars>>

\* line 51
ExtractMotivationCall ==
    /\ nz_pc = "education"
    /\ motivation' = ExtractMotivation(profile_data)
    /\ nz_pc' = "motivation"
    /\ UNCHANGED <<profile_data, career_variants, nz_strategy,
                   education_background, nz_result>>
    /\ UNCHANGED <<exVars, vaVars, mdVars, auxVars>>

\* lines 53-57: the UserProfile is returned
ReturnProfile ==
    /\ nz_pc = "motivation"
    /\ nz_result' = [career_background |-> nz_result.career_background,
                     education_background |-> education_background,
                     motivation |-> motivation]
    /\ nz_pc' = "done"
    /\ UNCHANGED <<profile_data, career_variants, nz_strategy,
                   education_background, motivation>>
    /\ UNCHANGED <<exVars, vaVars, mdVars, auxVars>>

NzNext ==
    \/ UseCareerData
    \/ SearchProfile
    \/ BuildCareerBackground
    \/ ExtractEducation
    \/ ExtractMotivationCall
    \/ ReturnProfile

-----------------------------------------------------------------------------
(***************************************************************************)
(* ModificatorAgent.  A pydantic object is a record of its fields with the *)
(* name of its class in the field type; the attributes an object has are   *)
(* the fields of the record.  The dict the chain returns is a record of    *)
(* its keys.  The job description is only read to build a part of the      *)
(* prompt that _format_job_description cannot fail to build; it is left    *)
(* out of the state.                                                       *)
(***************************************************************************)
CoverLetterResponse(result) ==
    [type |-> "CoverLetterResponse", title |-> result.title, body |-> result.body,
     key_points_used |-> result.key_points_used]

QuestionAnswerResponse(result) ==
    [type |-> "QuestionAnswerResponse", answer |-> result.answer,
     assumptions |-> IF "assumptions" \in DOMAIN result THEN result.assumptions
                     ELSE <<>>,
     follow_up_question |-> IF "follow_up_question" \in DOMAIN result
                            THEN result.follow_up_question ELSE None]

\* DataCollectorOutput, with the fields models.py declares
DataCollectorOutput(version, skills, alignment) ==
    [type |-> "DataCollectorOutput", selected_profile_version |-> version,
     relevant_skills |-> skills, relevant_experience |-> <<>>,
     relevant_education |-> <<>>, motivational_alignment |-> alignment,
     content_guidance |-> ""]

\* "- x" for every x of items
Bullets(items) == [i \in 1..Len(items) |-> "- " \o items[i]]

\* _format_original_content
FormatOriginalContent(content) ==
    IF content.type = "CoverLetterResponse"
    THEN "Cover Letter:\n\nTitle: " \o content.title \o "\n\nBody:\n" \o content.body
         \o "\n\nKey Points Used:\n" \o Join(Bullets(content.key_points_used), "\n")
    ELSE "HR Question Answer:\n\nAnswer: " \o content.answer \o "\n"
         \o (IF Len(content.assumptions) > 0
             THEN "\nAssumptions:\n" \o Join(Bullets(content.assumptions), "\n")
             ELSE "")
         \o (IF Truthy(content.follow_up_question)
             THEN "\nFollow-up Question: " \o content.follow_up_question[1]
             ELSE "")

\* _format_selected_feedback
FormatSelectedFeedback(feedback_items) ==
    IF Len(feedback_items) = 0 THEN "No feedback selected for application."
    ELSE "Selected Feedback to Apply:\n"
         \o Join([i \in 1..Len(feedback_items) |->
                    IntStr(i) \o ". " \o TitleCase(feedback_items[i].type) \o ": "
                    \o feedback_items[i].suggestion], "\n")

\* a titled list section of _format_filtered_profile
ProfileSection(heading, items) ==
    IF Len(items) > 0 THEN <<heading>> \o Bullets(items) ELSE <<>>

\* _format_filtered_profile: [raises, value]; reading an attribute the object
\* does not have raises AttributeError
FormatFilteredProfile(fp) ==
    IF "target_requirements" \notin DOMAIN fp \/ "target_responsibilities" \notin DOMAIN fp
    THEN [raises |-> TRUE, value |-> ""]
    ELSE [raises |-> FALSE,
          value |-> Join(<<"Selected Profile Version: " \o fp.selected_profile_version>>
                         \o ProfileSection("Target Job Requirements (must address):",
                                           fp.target_requirements)
                         \o ProfileSection("Target Responsibilities (must reflect):",
                                           fp.target_responsibilities)
                         \o (IF fp.content_guidance # ""
                             THEN <<"Content Guidance (must follow):", fp.content_guidance>>
                             ELSE <<>>)
                         \o ProfileSection("Relevant Skills:", fp.relevant_skills)
                         \o ProfileSection("Relevant Experience:", fp.relevant_experience)
                         \o ProfileSection("Relevant Education:", fp.relevant_education)
                         \o <<"Motivational Alignment: " \o fp.motivational_alignment>>,
                         "\n\n")]

\* the instruction line 112 appends to the feedback text of the retry
RetryInstruction ==
    "\nIMPORTANT: The previous attempt matched the original. Apply each feedback item and change wording/structure so differences are visible."

\* the input dict of chain.ainvoke
ChainInput(content, feedback_text, fp) ==
    [original_content |-> FormatOriginalContent(content),
     selected_feedback |-> feedback_text,
     filtered_profile |-> FormatFilteredProfile(fp).value]

\* _validate_result: [raises, value]; a missing required field makes the
\* constructor raise ValidationError
ValidateResult(content, result) ==
    IF content.type = "CoverLetterResponse"
    THEN IF {"title", "body", "key_points_used"} \subseteq DOMAIN result
         THEN [raises |-> FALSE, value |-> CoverLetterResponse(result)]
         ELSE [raises |-> TRUE, value |-> <<>>]
    ELSE IF "answer" \in DOMAIN result
         THEN [raises |-> FALSE, value |-> QuestionAnswerResponse(result)]
         ELSE [raises |-> TRUE, value |-> <<>>]

\* _is_identical comparing the fields as they are, without strip()
IsIdentical_ByteEqual(content, new_content) ==
    IF content.type = "CoverLetterResponse" /\ new_content.type = "CoverLetterResponse"
    THEN content.body = new_content.body
    ELSE IF /\ content.type = "QuestionAnswerResponse"
            /\ new_content.type = "QuestionAnswerResponse"
         THEN content.answer = new_content.answer
         ELSE FALSE

\* _is_identical
IsIdentical(content, new_content) ==
    IF content.type = "CoverLetterResponse" /\ new_content.type = "CoverLetterResponse"
    THEN Strip(content.body) = Strip(new_content.body)
    ELSE IF /\ content.type = "QuestionAnswerResponse"
            /\ new_content.type = "QuestionAnswerResponse"
         THEN Strip(content.answer) = Strip(new_content.answer)
         ELSE FALSE

\* what one chain.ainvoke does: [raises, result]
Reply(result) == [raises |-> FALSE, result |-> result]
ReplyError == [raises |-> TRUE, result |-> <<>>]

\* the outcome of one call of the chain followed by _validate_result
CallAndValidate(content, reply) ==
    IF reply.raises THEN [raises |-> TRUE, value |-> <<>>]
    ELSE ValidateResult(content, reply.result)

\* the arguments of apply_modifications: up to MaxFeedback feedback items
MaxFeedback == 2

ContentInputs ==
    { CoverLetterResponse([title |-> "Application for Data Engineer",
                           body |-> "Dear team, I build data pipelines.",
                           key_points_used |-> <<"pipelines">>]),
      QuestionAnswerResponse([answer |-> "I led a migration to the cloud."]) }

FeedbackPool ==
    << [type |-> "tone", suggestion |-> "Sound more confident"],
       [type |-> "alignment", suggestion |-> "Mention the data platform"],
       [type |-> "clarity", suggestion |-> "Shorten the opening"] >>

FeedbackInputs == {SubSeq(FeedbackPool, 1, n) : n \in 0..MaxFeedback}

\* apply_modifications does not check the class of filtered_profile: the
\* second object also carries the two attributes DataCollectorOutput lacks
ProfileObjectInputs ==
    { DataCollectorOutput("Data Engineer", <<"Python", "SQL">>, "Likes data platforms"),
      [type |-> "ProfileWithTargets", selected_profile_version |-> "Data Engineer",
       target_requirements |-> <<"Python">>, target_responsibilities |-> <<>>,
       relevant_skills |-> <<"Python", "SQL">>, relevant_experience |-> <<>>,
       relevant_education |-> <<>>, motivational_alignment |-> "Likes data platforms",
       content_guidance |-> "Be concrete"] }

\* the text field _is_identical compares
ComparedText(content) ==
    IF content.type = "CoverLetterResponse" THEN content.body ELSE content.answer

\* a result dict for the class of content with the given compared text
ResultWith(content, text) ==
    IF content.type = "CoverLetterResponse"
    THEN [title |-> content.title, body |-> text,
          key_points_used |-> content.key_points_used]
    ELSE [answer |-> text]

\* what the chain may answer to a call: the original text, the original text
\* between whitespace, another text, a dict without the required fields, or
\* an exception
ReplyInputs(content) ==
    { Reply(ResultWith(content, ComparedText(content))),
      Reply(ResultWith(content, "  " \o ComparedText(content) \o "\n")),
      Reply(ResultWith(content, "A rewritten text.")),
      Reply([response |-> "no fields"]),
      ReplyError }

MdIdle ==
    /\ md_pc = "idle"
    /\ original_content = <<>>
    /\ selected_feedback = <<>>
    /\ filtered_profile = <<>>
    /\ llm_replies = <<>>
    /\ chain_calls = <<>>
    /\ validated_result = <<>>
    /\ md_result = <<>>

MdInit ==
    /\ md_pc = "start"
    /\ original_content \in ContentInputs
    /\ selected_feedback \in FeedbackInputs
    /\ filtered_profile \in ProfileObjectInputs
    /\ llm_replies \in [1..2 -> ReplyInputs(original_content)]
    /\ chain_calls = <<>>
    /\ validated_result = <<>>
    /\ md_result = <<>>

\* lines 80-83: the prompt inputs are formatted; an exception leads to the
\* except clause
FormatInputs ==
    /\ md_pc = "start"
    /\ md_pc' = IF FormatFilteredProfile(filtered_profile).raises
                THEN "except" ELSE "formatted"
    /\ UNCHANGED <<original_content, selected_feedback, filtered_profile,
                   llm_replies, chain_calls, validated_result, md_result>>
    /\ UNCHANGED <<exVars, vaVars, nzVars, auxVars>>

\* lines 96-107: the first call of the chain and the validation of its result
InvokeChain ==
    /\ md_pc = "formatted"
    /\ chain_calls' = Append(chain_calls,
                             ChainInput(original_content,
                                        FormatSelectedFeedback(selected_feedback),
                                        filtered_profile))
    /\ \E r \in {CallAndValidate(original_content, llm_replies[1])} :
          /\ validated_result' = r.value
          /\ md_pc' = IF r.raises THEN "except" ELSE "validated"
    /\ UNCHANGED <<original_content, selected_feedback, filtered_profile,
                   llm_replies, md_result>>
    /\ UNCHANGED <<exVars, vaVars, nzVars, auxVars>>

\* the condition of line 110
NeedsRetry ==
    IsIdentical(original_content, validated_result) /\ Len(selected_feedback) > 0

\* lines 110-121: the retry with the forced feedback text
RetryChain ==
    /\ md_pc = "validated"
    /\ NeedsRetry
    /\ chain_calls' = Append(chain_calls,
                             ChainInput(original_content,
                                        FormatSelectedFeedback(selected_feedback)
                                            \o RetryInstruction,
                                        filtered_profile))
    /\ \E r \in {CallAndValidate(original_content, llm_replies[2])} :
          /\ validated_result' = IF r.raises THEN validated_result ELSE r.value
          /\ md_pc' = IF r.raises THEN "except" ELSE "retried"
    /\ UNCHANGED <<original_content, selected_feedback, filtered_profile,
                   llm_replies, md_result>>
    /\ UNCHANGED <<exVars, vaVars, nzVars, auxVars>>

\* line 123
ReturnModified ==
    /\ md_pc \in {"retried", "validated"}
    /\ md_pc = "validated" => ~NeedsRetry
    /\ md_result' = [modified_output |-> validated_result]
    /\ md_pc' = "done"
    /\ UNCHANGED <<original_content, selected_feedback, filtered_profile,
                   llm_replies, chain_calls, validated_result>>
    /\ UNCHANGED <<exVars, vaVars, nzVars, auxVars>>

\* lines 125-128: the except clause returns the original content
ReturnOriginal ==
    /\ md_pc = "except"
    /\ md_result' = [modified_output |-> original_content]
    /\ md_pc' = "done"
    /\ UNCHANGED <<original_content, selected_feedback, filtered_profile,
                   llm_replies, chain_calls, validated_result>>
    /\ UNCHANGED <<exVars, vaVars, nzVars, auxVars>>

MdNext ==
    \/ FormatInputs
    \/ InvokeChain
    \/ RetryChain
    \/ ReturnModified
    \/ ReturnOriginal

-----------------------------------------------------------------------------
(***************************************************************************)
(* Successive calls of normalize.  A ProfileNormalizer has no attribute of *)
(* its own; what one call can leave behind for the next is the dict the    *)
(* caller passed, which normalize receives by reference.  The caller holds *)
(* two dicts and passes one of them at each call; the steps of the         *)
(* call are the actions of NzNext, which work on profile_data.             *)
(***************************************************************************)
MaxCalls == 3

\* the caller's two dict objects
ObjectIds == {1, 2}

\* the dicts the caller builds: no entry or one entry of the pool
CallProfiles == {Dict(<<>>)} \cup {Dict(<<EntryPool[k]>>) : k \in 1..Len(EntryPool)}

NcIdle ==
    /\ nz_raw = <<>>
    /\ nz_objects = <<>>
    /\ nz_call = 0
    /\ nz_returns = <<>>

NcInit ==
    /\ nz_raw \in [ObjectIds -> CallProfiles]
    /\ nz_objects = nz_raw
    /\ nz_call = 0
    /\ nz_returns = <<>>

\* the variables of the other components
ncOthers == <<exVars, vaVars, mdVars, rtVars, ldVars, plVars, svcVars>>

\* lines 34-43: normalize(profile_data) is entered with one of the caller's
\* dicts; the locals of the call are fresh
NormalizeCall ==
    /\ nz_pc \in {"idle", "returned"}
    /\ Len(nz_returns) < MaxCalls
    /\ \E k \in ObjectIds :
          /\ nz_call' = k
          /\ profile_data' = nz_objects[k]
    /\ career_variants' = EmptyVariants
    /\ nz_strategy' = <<>>
    /\ education_background' = ""
    /\ motivation' = ""
    /\ nz_result' = <<>>
    /\ nz_pc' = "start"
    /\ UNCHANGED <<nz_raw, nz_objects, nz_returns>>
    /\ UNCHANGED ncOthers

\* lines 53-57: the caller receives the UserProfile; its dict is what the
\* call left of it
NormalizeReturn ==
    /\ nz_pc = "done"
    /\ nz_returns' = Append(nz_returns, [object |-> nz_call, result |-> nz_result])
    /\ nz_objects' = [nz_objects EXCEPT ![nz_call] = profile_data]
    /\ nz_pc' = "returned"
    /\ UNCHANGED <<nz_raw, nz_call, profile_data, career_variants, nz_strategy,
                   education_background, motivation, nz_result>>
    /\ UNCHANGED ncOthers

NcNext ==
    \/ NormalizeCall
    \/ NzNext
    \/ NormalizeReturn

-----------------------------------------------------------------------------
(***************************************************************************)
(* error_handler.py: the error taxonomy.  An exception is a record of its  *)
(* class and its attributes; an exception that is not a JobAgentError has  *)
(* no category.                                                            *)
(***************************************************************************)
ErrorCategory == {"network", "validation", "llm", "parsing", "authentication",
                  "rate_limit", "timeout", "unknown"}

\* JobAgentError.__init__: user_message or message
JobAgentError(message, category, details, user_message) ==
    [class |-> "JobAgentError", message |-> message, category |-> category,
     details |-> details,
     user_message |-> IF Truthy(user_message) THEN user_message[1] ELSE message]

\* NetworkError._get_user_message
NetworkUserMessage(message) ==
    IF Contains(message, "404") \/ Contains(message, "Not Found")
    THEN "The job posting URL could not be found. Please check the URL and try again."
    ELSE IF Contains(message, "403") \/ Contains(message, "Forbidden")
    THEN "Access to this job posting is restricted. Try using a different job board or copy-paste the description."
    ELSE IF Contains(message, "500") \/ Contains(message, "502") \/ Contains(message, "503")
    THEN "The job board is temporarily unavailable. Please try again later."
    ELSE IF Contains(Lower(message), "timeout")
    THEN "The request timed out. Please check your internet connection and try again."
    ELSE "Unable to access the job posting. Please try a different URL or copy-paste the job description."

NetworkError(message, url, status_code) ==
    [JobAgentError(message, "network", [url |-> url, status_code |-> status_code],
                   Some(NetworkUserMessage(message)))
     EXCEPT !.class = "NetworkError"]

\* ValidationError._get_user_message; field is an Optional[str]
ValidationUserMessage(field) ==
    IF field = Some("job_description_url")
    THEN "Please provide a valid job posting URL (must start with http:// or https://)."
    ELSE IF ~IsNone(field) /\ Contains(Lower(field[1]), "profile")
    THEN "Please provide a complete profile with career background and education information."
    ELSE "Please check your input and try again."

ValidationError(message, field, value) ==
    [JobAgentError(message, "validation",
                   [field |-> field,
                    value |-> IF Truthy(value) THEN Some(Take(value[1], 100)) ELSE None],
                   Some(ValidationUserMessage(field)))
     EXCEPT !.class = "ValidationError"]

\* LLMError._get_user_message
LLMUserMessage(message) ==
    IF Contains(Lower(message), "api key") \/ Contains(Lower(message), "authentication")
    THEN "AI service is not configured properly. Please contact support."
    ELSE IF Contains(Lower(message), "rate limit") \/ Contains(Lower(message), "quota")
    THEN "AI service is temporarily busy. Please try again in a few minutes."
    ELSE IF Contains(Lower(message), "timeout")
    THEN "AI response timed out. Please try again."
    ELSE "AI service temporarily unavailable. Please try again."

LLMError(message, provider, model) ==
    [JobAgentError(message, "llm", [provider |-> provider, model |-> model],
                   Some(LLMUserMessage(message)))
     EXCEPT !.class = "LLMError"]

AuthenticationError(message, provider) ==
    [JobAgentError(message, "authentication", [provider |-> provider],
                   Some("This job posting requires login to view. Please try a different job board or copy-paste the description directly."))
     EXCEPT !.class = "AuthenticationError"]

\* an exception of a class outside the taxonomy (ValueError, AttributeError,
\* an httpx error)
PyException(class, message) == [class |-> class, message |-> message]

\* isinstance(e, JobAgentError)
IsJobAgentError(e) ==
    e.class \in {"JobAgentError", "NetworkError", "ValidationError", "LLMError",
                 "AuthenticationError"}

-----------------------------------------------------------------------------
(***************************************************************************)
(* retry_with_backoff(func, config).  One action is one turn of the for    *)
(* loop: the invocation of func, the handling of how it ended and the      *)
(* sleep before the next turn.  Delays are whole time units.               *)
(***************************************************************************)
MaxAttempts == 3

\* RetryConfig.__init__, line 146: an empty or missing list is the default
DefaultRetryable == {"network", "timeout", "rate_limit"}
RetryConfig(max_attempts, base_delay, max_delay, backoff_factor, retryable_errors) ==
    [max_attempts |-> max_attempts, base_delay |-> base_delay,
     max_delay |-> max_delay, backoff_factor |-> backoff_factor,
     retryable_errors |-> IF retryable_errors = {} THEN DefaultRetryable
                          ELSE retryable_errors]

RECURSIVE Pow(_, _)
Pow(b, n) == IF n = 0 THEN 1 ELSE b * Pow(b, n - 1)

Min(a, b) == IF a <= b THEN a ELSE b

\* the delay of lines 189-191 without the min
Delay_NoCap(config, attempt) ==
    config.base_delay * Pow(config.backoff_factor, attempt)

\* lines 189-191 and 208-210
Delay(config, attempt) ==
    Min(config.base_delay * Pow(config.backoff_factor, attempt), config.max_delay)

\* the configurations handed to retry_with_backoff
ConfigInputs ==
    {RetryConfig(n, b, m, f, r) :
        n \in 0..MaxAttempts, b \in {1, 3}, m \in {4, 30}, f \in {2},
        r \in {{}, {"llm", "network"}}}

\* how one invocation of func can end: it returns, raises an error of the
\* taxonomy, or raises another exception
FuncReturn == [class |-> "return", value |-> "success"]
FuncErrors ==
    {NetworkError("Temporary network error", None, None),
     ValidationError("Invalid input", None, None),
     AuthenticationError("Login wall", None),
     PyException("ValueError", "bad value")}
    \cup {JobAgentError("failed", c, <<>>, None) :
             c \in {"llm", "parsing", "rate_limit", "timeout", "unknown"}}

RtIdle ==
    /\ rt_pc = "idle"
    /\ rt_config = <<>>
    /\ rt_attempt = 0
    /\ rt_trace = <<>>
    /\ rt_sleeps = <<>>
    /\ rt_outcome = <<>>

\* lines 170-172
RtInit ==
    /\ rt_pc = "loop"
    /\ rt_config \in ConfigInputs
    /\ rt_attempt = 0
    /\ rt_trace = <<>>
    /\ rt_sleeps = <<>>
    /\ rt_outcome = <<>>

rtOthers == <<exVars, vaVars, nzVars, mdVars, ncVars, ldVars, plVars, svcVars>>

\* the loop has a turn left
InLoop == rt_pc = "loop" /\ rt_attempt < rt_config.max_attempts

\* line 174: func returns and so does retry_with_backoff
FuncReturns ==
    /\ InLoop
    /\ rt_trace' = Append(rt_trace, FuncReturn)
    /\ rt_outcome' = FuncReturn
    /\ rt_pc' = "returned"
    /\ UNCHANGED <<rt_config, rt_attempt, rt_sleeps>>
    /\ UNCHANGED rtOthers

\* lines 175-181: a JobAgentError outside config.retryable_errors is re-raised
NonRetryableError ==
    /\ InLoop
    /\ \E e \in FuncErrors :
          /\ IsJobAgentError(e)
          /\ e.category \notin rt_config.retryable_errors
          /\ rt_trace' = Append(rt_trace, e)
          /\ rt_outcome' = e
    /\ rt_pc' = "raised"
    /\ UNCHANGED <<rt_config, rt_attempt, rt_sleeps>>
    /\ UNCHANGED rtOthers

\* lines 183-186: a retryable error on the last turn is re-raised
LastAttemptFailed ==
    /\ InLoop
    /\ rt_attempt = rt_config.max_attempts - 1
    /\ \E e \in FuncErrors :
          /\ IsJobAgentError(e)
          /\ e.category \in rt_config.retryable_errors
          /\ rt_trace' = Append(rt_trace, e)
          /\ rt_outcome' = e
    /\ rt_pc' = "raised"
    /\ UNCHANGED <<rt_config, rt_attempt, rt_sleeps>>
    /\ UNCHANGED rtOthers

\* lines 188-196: a retryable error on an earlier turn: sleep, next turn
BackoffAndRetry ==
    /\ InLoop
    /\ rt_attempt # rt_config.max_attempts - 1
    /\ \E e \in FuncErrors :
          /\ IsJobAgentError(e)
          /\ e.category \in rt_config.retryable_errors
          /\ rt_trace' = Append(rt_trace, e)
    /\ rt_sleeps' = Append(rt_sleeps, Delay(rt_config, rt_attempt))
    /\ rt_attempt' = rt_attempt + 1
    /\ UNCHANGED <<rt_pc, rt_config, rt_outcome>>
    /\ UNCHANGED rtOthers

\* lines 198-206: another exception on the last turn is wrapped and raised
UnexpectedLastAttempt ==
    /\ InLoop
    /\ rt_attempt = rt_config.max_attempts - 1
    /\ \E e \in FuncErrors :
          /\ ~IsJobAgentError(e)
          /\ rt_trace' = Append(rt_trace, e)
          /\ rt_outcome' = JobAgentError("Unexpected error: " \o e.message,
                                         "unknown", <<>>, None)
    /\ rt_pc' = "raised"
    /\ UNCHANGED <<rt_config, rt_attempt, rt_sleeps>>
    /\ UNCHANGED rtOthers

\* lines 198-211: another exception on an earlier turn: sleep, next turn
UnexpectedBackoff ==
    /\ InLoop
    /\ rt_attempt # rt_config.max_attempts - 1
    /\ \E e \in FuncErrors :
          /\ ~IsJobAgentError(e)
          /\ rt_trace' = Append(rt_trace, e)
    /\ rt_sleeps' = Append(rt_sleeps, Delay(rt_config, rt_attempt))
    /\ rt_attempt' = rt_attempt + 1
    /\ UNCHANGED <<rt_pc, rt_config, rt_outcome>>
    /\ UNCHANGED rtOthers

\* lines 213-215: the loop ends without a turn (max_attempts is 0);
\* last_exception is None and the function returns None
LoopFallsThrough ==
    /\ rt_pc = "loop"
    /\ rt_attempt >= rt_config.max_attempts
    /\ rt_outcome' = [class |-> "return", value |-> None]
    /\ rt_pc' = "returned"
    /\ UNCHANGED <<rt_config, rt_attempt, rt_trace, rt_sleeps>>
    /\ UNCHANGED rtOthers

RtNext ==
    \/ FuncReturns
    \/ NonRetryableError
    \/ LastAttemptFailed
    \/ BackoffAndRetry
    \/ UnexpectedLastAttempt
    \/ UnexpectedBackoff
    \/ LoopFallsThrough

-----------------------------------------------------------------------------
(***************************************************************************)
(* JobDescriptionLoader.load(url), decorated with handle_job_loading_errors*)
(* What client.get answers is the environment's choice: an httpx response  *)
(* [status, url, text] (url is the final URL after redirects) or a         *)
(* transport exception.  One action is one path through load and through   *)
(* the decorator.                                                          *)
(***************************************************************************)
\* _parse_html_content as one call: [raises, value]
ParseHtmlContent(html, url, seed) ==
    LET Result(t, text, company) ==
            [raises |-> company.raises,
             value |-> [title |-> t,
                        responsibilities |-> ExtractResponsibilities(text, seed),
                        requirements |-> ExtractRequirements(text, seed),
                        role_summary |-> ExtractRoleSummary(text, t),
                        company_context |-> company.value]]
        OfText(t, text) == Result(t, text, ExtractCompanyContext(text, url))
        OfSoup(soup) == OfText(ExtractTitle(soup), GetText(soup))
    IN  OfSoup(Decompose(BeautifulSoup(html)))

\* JobDescription(url=url, **parsed_data)
JobDescription(url, parsed_data) ==
    [type |-> "JobDescription", url |-> url, title |-> parsed_data.title,
     responsibilities |-> parsed_data.responsibilities,
     requirements |-> parsed_data.requirements,
     role_summary |-> parsed_data.role_summary,
     company_context |-> parsed_data.company_context]

login_indicators == <<"login", "auth", "signin", "sign-in", "log-in",
                      "authenticate", "session_redirect", "uas/login">>
login_content_indicators == <<"sign in", "log in", "login required",
                              "authentication required", "please sign in",
                              "you must be logged in", "login to continue">>

\* _is_redirected_to_login
IsRedirectedToLogin(response, original_url) ==
    \/ /\ response.url # original_url
       /\ AnyIn(login_indicators, Lower(response.url))
    \/ /\ response.text # ""
       /\ AnyIn(login_content_indicators, Lower(response.text))

\* the message of the AuthenticationError of lines 87-92; the bullet
\* character of the source is written "*"
LoginWallMessage(platform) ==
    "This job posting from " \o platform \o " requires login to view. "
    \o "Try one of these alternatives:\n"
    \o "* Copy and paste the job description text directly\n"
    \o "* Use job postings from Indeed, Glassdoor, or company career pages\n"
    \o "* Look for a 'shareable' or public link to the job"

\* httpx: the reason phrase of a status code
ReasonPhrase(status) ==
    CASE status = "200" -> "OK"
      [] status = "401" -> "Unauthorized"
      [] status = "403" -> "Forbidden"
      [] status = "404" -> "Not Found"
      [] status = "429" -> "Too Many Requests"
      [] status = "500" -> "Internal Server Error"
      [] status = "503" -> "Service Unavailable"

\* httpx: str() of the HTTPStatusError that response.raise_for_status() raises
StatusErrorMessage(response) ==
    (IF Ch(response.status, 1) = "4" THEN "Client error" ELSE "Server error")
    \o " '" \o response.status \o " " \o ReasonPhrase(response.status)
    \o "' for url '" \o response.url \o "'\n"
    \o "For more information check: https://developer.mozilla.org/en-US/docs/Web/HTTP/Status/"
    \o response.status

\* the wrapper of handle_job_loading_errors: the exception it raises for the
\* exception e that left load
HandleJobLoadingErrors(e) ==
    LET Classify(error_msg) ==
            IF Contains(error_msg, "404") \/ Contains(error_msg, "Not Found")
            THEN NetworkError(error_msg, None, Some(404))
            ELSE IF Contains(error_msg, "403") \/ Contains(error_msg, "Forbidden")
            THEN AuthenticationError(error_msg, None)
            ELSE IF Contains(Lower(error_msg), "timeout")
            THEN NetworkError(error_msg, None, None)
            ELSE IF AnyIn(<<"500", "502", "503", "504">>, error_msg)
            THEN NetworkError(error_msg, None, None)
            ELSE IF IsJobAgentError(e) THEN e
            ELSE JobAgentError("Job loading failed: " \o error_msg, "unknown", <<>>, None)
    IN  Classify(e.message)

\* the body of load, lines 76-100: [fetched, raised, value]; answer is what
\* client.get does
LoadBody(url, answer, seed) ==
    LET Raise(fetched, e) == [fetched |-> fetched, raised |-> TRUE, value |-> e]
        Parsed(r) ==
            IF r.raises THEN Raise(TRUE, PyException("ValueError", "Invalid IPv6 URL"))
            ELSE [fetched |-> TRUE, raised |-> FALSE, value |-> JobDescription(url, r.value)]
        OfResponse(response) ==
            IF IsRedirectedToLogin(response, url)
            THEN Raise(TRUE, AuthenticationError(LoginWallMessage(DetectProvider(url).value),
                                                 Some(DetectProvider(url).value)))
            ELSE IF Ch(response.status, 1) \in {"4", "5"}
            THEN Raise(TRUE, PyException("HTTPStatusError", StatusErrorMessage(response)))
            ELSE Parsed(ParseHtmlContent(response.text, url, seed))
    IN  IF ~IsValidUrl(url)
        THEN Raise(FALSE, PyException("ValueError", "Invalid URL: " \o url))
        ELSE IF answer.kind = "error" THEN Raise(TRUE, answer.exc)
        ELSE OfResponse(answer)

\* load as its callers see it
Load(url, answer, seed) ==
    LET Wrap(r) == IF r.raised THEN [r EXCEPT !.value = HandleJobLoadingErrors(r.value)]
                   ELSE r
    IN  Wrap(LoadBody(url, answer, seed))

\* the URLs handed to load
LoadUrlInputs == {"not-a-url", "", "http://[bad",
                  "https://facebook.com/jobs/post123",
                  "https://www.indeed.com/viewjob?jk=404",
                  "https://careers.acme.com/jobs/1",
                  "https://www.linkedin.com/jobs/view/1"}

\* what the network can answer for a URL
JobPage == "<title>Data Engineer | Acme</title><p>Responsibilities:\n- Build the data pipelines\n- Review code with the team</p>"
SignInPage == "<h1>Welcome back</h1><p>Please sign in to continue</p>"
Response(status, url, text) == [kind |-> "response", status |-> status, url |-> url, text |-> text]
FetchAnswers(url) ==
    {Response(st, u, t) :
        st \in {"200", "401", "403", "404", "429", "500", "503"},
        u \in {url, "https://www.linkedin.com/uas/login?session_redirect=1"},
        t \in {JobPage, SignInPage, ""}}
    \cup {[kind |-> "error", exc |-> PyException("ConnectError", "All connection attempts failed")],
          [kind |-> "error", exc |-> PyException("ReadTimeout", "")],
          [kind |-> "error", exc |-> PyException("ReadTimeout", "The read operation timed out")]}

LdIdle ==
    /\ ld_pc = "idle"
    /\ ld_url = ""
    /\ ld_fetches = <<>>
    /\ ld_response = <<>>
    /\ ld_outcome = <<>>

LdInit ==
    /\ ld_pc = "start"
    /\ ld_url \in LoadUrlInputs
    /\ ld_fetches = <<>>
    /\ ld_response = <<>>
    /\ ld_outcome = <<>>

ldOthers == <<exVars, vaVars, nzVars, mdVars, ncVars, rtVars, plVars, svcVars>>

\* load ends with the result r after client.get answered (<<>> when it was
\* not called)
LoadEnds(answer, r) ==
    /\ ld_fetches' = IF r.fetched THEN Append(ld_fetches, ld_url) ELSE ld_fetches
    /\ ld_response' = answer
    /\ ld_outcome' = r.value
    /\ ld_pc' = IF r.raised THEN "raised" ELSE "returned"
    /\ UNCHANGED ld_url
    /\ UNCHANGED ldOthers

\* lines 76-77: the URL is rejected before any request
RejectUrl ==
    /\ ld_pc = "start"
    /\ ~IsValidUrl(ld_url)
    /\ LoadEnds(<<>>, Load(ld_url, <<>>, 0))

\* lines 79-82: client.get raises
FetchFails ==
    /\ ld_pc = "start"
    /\ IsValidUrl(ld_url)
    /\ \E answer \in FetchAnswers(ld_url) :
          /\ answer.kind = "error"
          /\ LoadEnds(answer, Load(ld_url, answer, 0))

\* lines 84-92: the response is a login page
LoginWall ==
    /\ ld_pc = "start"
    /\ IsValidUrl(ld_url)
    /\ \E answer \in FetchAnswers(ld_url) :
          /\ answer.kind = "response"
          /\ IsRedirectedToLogin(answer, ld_url)
          /\ LoadEnds(answer, Load(ld_url, answer, 0))

\* line 94: raise_for_status raises
StatusError ==
    /\ ld_pc = "start"
    /\ IsValidUrl(ld_url)
    /\ \E answer \in FetchAnswers(ld_url) :
          /\ answer.kind = "response"
          /\ ~IsRedirectedToLogin(answer, ld_url)
          /\ Ch(answer.status, 1) \in {"4", "5"}
          /\ LoadEnds(answer, Load(ld_url, answer, 0))

\* lines 95-100: the page is parsed and the JobDescription returned
ParseAndReturn ==
    /\ ld_pc = "start"
    /\ IsValidUrl(ld_url)
    /\ \E answer \in FetchAnswers(ld_url), seed \in 0..MaxSeed :
          /\ answer.kind = "response"
          /\ ~IsRedirectedToLogin(answer, ld_url)
          /\ Ch(answer.status, 1) \notin {"4", "5"}
          /\ LoadEnds(answer, Load(ld_url, answer, seed))

LdNext ==
    \/ RejectUrl
    \/ FetchFails
    \/ LoginWall
    \/ StatusError
    \/ ParseAndReturn

-----------------------------------------------------------------------------
(***************************************************************************)
(* CoverLetterWriterChain.generate_cover_letter and                        *)
(* QuestionAnswerWriterChain.answer_question: the same method but for the  *)
(* writer call of step 4.  The three agents catch every exception of their *)
(* LLM chain and return a fixed fallback object, so an agent call always   *)
(* returns; what the LLM answers is the environment's choice.              *)
(***************************************************************************)
\* ProfileNormalizer.normalize as one call
Normalize(profile) ==
    LET Final(variants) ==
            IF ~AnyVariant(variants) THEN SearchEntireProfile(profile, variants)
            ELSE variants
    IN  [career_background |->
             CareerBackground(Final(VariantsFromCareerData(FindCareerData(profile)))),
         education_background |-> ExtractEducationBackground(profile),
         motivation |-> ExtractMotivation(profile)]

\* DataCollectorAgent.collect_data: the validated LLM result or the fallback
CollectData(job_description, user_profile, reply) ==
    IF ~reply.raises /\ {"selected_profile_version", "motivational_alignment"}
                      \subseteq DOMAIN reply.result
    THEN DataCollectorOutput(reply.result.selected_profile_version,
                             IF "relevant_skills" \in DOMAIN reply.result
                             THEN reply.result.relevant_skills ELSE <<>>,
                             reply.result.motivational_alignment)
    ELSE DataCollectorOutput("General", <<>>, "Seeking to apply skills to this role.")

\* WriterAgent.write_cover_letter
WriteCoverLetter(job_description, filtered, reply) ==
    IF ~reply.raises /\ {"title", "body", "key_points_used"} \subseteq DOMAIN reply.result
    THEN CoverLetterResponse(reply.result)
    ELSE CoverLetterResponse(
             [title |-> "Cover Letter",
              body |-> "I am writing to express my interest in this position. Please see my resume for details of my qualifications.",
              key_points_used |-> <<>>])

\* WriterAgent.answer_question
AnswerQuestion(job_description, filtered, question, reply) ==
    IF ~reply.raises /\ "answer" \in DOMAIN reply.result
    THEN QuestionAnswerResponse(reply.result)
    ELSE QuestionAnswerResponse(
             [answer |-> "I don't have sufficient information to answer this question based on my provided profile.",
              assumptions |-> <<>>,
              follow_up_question |-> Some("Could you please provide more context about what specific information you're looking for?")])

\* FeedbackResponse(**result): feedback_items defaults to an empty list
FeedbackResponse(result) ==
    [type |-> "FeedbackResponse",
     feedback_items |-> IF "feedback_items" \in DOMAIN result THEN result.feedback_items
                        ELSE <<>>]

\* FeedbackAgent.provide_feedback
ProvideFeedback(generated_content, job_description, filtered, reply) ==
    IF ~reply.raises THEN FeedbackResponse(reply.result)
    ELSE FeedbackResponse([feedback_items |-> <<>>])

\* request.user_profile.dict(): the dict of a UserProfile
EmptyProfileDict ==
    Dict(<< Entry("career_background", Dict(<< Entry("careers", Dict(<<>>)) >>)),
            Entry("education_background", Str("")),
            Entry("motivation", Str("")) >>)
EngineerProfileDict ==
    Dict(<< Entry("career_background",
                  Dict(<< Entry("careers",
                                Dict(<< Entry("data_engineering",
                                              Dict(<< Entry("initiator", Null),
                                                      Entry("achievement_sample",
                                                            Str("Built Kafka pipelines")),
                                                      Entry("education_profile", Null),
                                                      Entry("motivation_goals", Null) >>)) >>)) >>)),
            Entry("education_background", Str("MSc in Physics")),
            Entry("motivation", Str("Build useful tools")) >>)

\* the requests: CoverLetterRequest, and QuestionAnswerRequest with its
\* hr_question
RequestInputs ==
    {[kind |-> kind, job_description_url |-> url, job_description_text |-> text,
      user_profile |-> profile, hr_question |-> "Why this role?"] :
        kind \in {"cover_letter", "question_answer"},
        url \in {None, Some(""), Some("not-a-url"),
                 Some("https://careers.acme.com/jobs/1"),
                 Some("https://www.linkedin.com/jobs/view/1")},
        text \in {None, Some("Data engineer wanted. Responsibilities:\n- Build the data pipelines")},
        profile \in {EmptyProfileDict, EngineerProfileDict}}

\* what an LLM chain answers: a result dict, or an exception
CollectorReplies ==
    {Reply([selected_profile_version |-> "Data Engineer",
            relevant_skills |-> <<"Kafka">>,
            motivational_alignment |-> "Likes data platforms"]),
     ReplyError}
WriterReplies(kind) ==
    {IF kind = "cover_letter"
     THEN Reply([title |-> "Application", body |-> "Dear team",
                 key_points_used |-> <<"Kafka">>])
     ELSE Reply([answer |-> "Because of the data platform."]),
     ReplyError}
FeedbackReplies ==
    {Reply([feedback_items |-> <<[type |-> "tone", suggestion |-> "Be warmer"]>>]),
     ReplyError}

NoLocals == [job_description |-> <<>>, normalized_profile |-> <<>>,
             filtered_profile |-> <<>>, cover_letter |-> <<>>, feedback |-> <<>>]

PlIdle ==
    /\ pl_pc = "idle"
    /\ pl_request = <<>>
    /\ pl_calls = <<>>
    /\ pl_locals = NoLocals
    /\ pl_outcome = <<>>

PlInit ==
    /\ pl_pc = "start"
    /\ pl_request \in RequestInputs
    /\ pl_calls = <<>>
    /\ pl_locals = NoLocals
    /\ pl_outcome = <<>>

plOthers == <<exVars, vaVars, nzVars, mdVars, ncVars, rtVars, ldVars, svcVars>>

\* a finished collaborator call
Call(step, args, raised, result) ==
    [step |-> step, args |-> args, raised |-> raised, result |-> result]

\* lines 47-53, 90-92: step 1 with a URL; an exception of load leaves the
\* method through "except Exception: raise"
LoadFromUrl ==
    /\ pl_pc = "start"
    /\ Truthy(pl_request.job_description_url)
    /\ \E url \in {pl_request.job_description_url[1]} :
       \E answer \in FetchAnswers(url), seed \in 0..MaxSeed :
       \E r \in {Load(url, answer, seed)} :
          /\ pl_calls' = Append(pl_calls, Call("load", <<url>>, r.raised, r.value))
          /\ IF r.raised
             THEN /\ pl_pc' = "raised"
                  /\ pl_outcome' = r.value
                  /\ UNCHANGED pl_locals
             ELSE /\ pl_pc' = "loaded"
                  /\ pl_locals' = [pl_locals EXCEPT !.job_description = r.value]
                  /\ UNCHANGED pl_outcome
    /\ UNCHANGED pl_request
    /\ UNCHANGED plOthers

\* lines 54-58: step 1 with a text; JobDescriptionLoader defines no
\* load_from_text, the attribute lookup raises
LoadFromText ==
    /\ pl_pc = "start"
    /\ ~Truthy(pl_request.job_description_url)
    /\ Truthy(pl_request.job_description_text)
    /\ pl_pc' = "raised"
    /\ pl_outcome' = PyException("AttributeError",
          "'JobDescriptionLoader' object has no attribute 'load_from_text'")
    /\ UNCHANGED <<pl_request, pl_calls, pl_locals>>
    /\ UNCHANGED plOthers

\* lines 59-62: neither a URL nor a text
MissingJobDescription ==
    /\ pl_pc = "start"
    /\ ~Truthy(pl_request.job_description_url)
    /\ ~Truthy(pl_request.job_description_text)
    /\ pl_pc' = "raised"
    /\ pl_outcome' = PyException("ValueError",
          "Either job_description_url or job_description_text must be provided")
    /\ UNCHANGED <<pl_request, pl_calls, pl_locals>>
    /\ UNCHANGED plOthers

\* lines 64-68: step 2
NormalizeProfile ==
    /\ pl_pc = "loaded"
    /\ \E r \in {Normalize(pl_request.user_profile)} :
          /\ pl_calls' = Append(pl_calls,
                 Call("normalize", <<pl_request.user_profile>>, FALSE, r))
          /\ pl_locals' = [pl_locals EXCEPT !.normalized_profile = r]
    /\ pl_pc' = "normalized"
    /\ UNCHANGED <<pl_request, pl_outcome>>
    /\ UNCHANGED plOthers

\* step 3 handed the profile of the request in place of the normalized one
CollectRelevantData_RawProfile ==
    /\ pl_pc = "normalized"
    /\ \E reply \in CollectorReplies :
       \E r \in {CollectData(pl_locals.job_description, pl_request.user_profile, reply)} :
          /\ pl_calls' = Append(pl_calls,
                 Call("collect_data",
                      <<pl_locals.job_description, pl_request.user_profile>>, FALSE, r))
          /\ pl_locals' = [pl_locals EXCEPT !.filtered_profile = r]
    /\ pl_pc' = "collected"
    /\ UNCHANGED <<pl_request, pl_outcome>>
    /\ UNCHANGED plOthers

\* lines 70-74: step 3
CollectRelevantData ==
    /\ pl_pc = "normalized"
    /\ \E reply \in CollectorReplies :
       \E r \in {CollectData(pl_locals.job_description, pl_locals.normalized_profile, reply)} :
          /\ pl_calls' = Append(pl_calls,
                 Call("collect_data",
                      <<pl_locals.job_description, pl_locals.normalized_profile>>, FALSE, r))
          /\ pl_locals' = [pl_locals EXCEPT !.filtered_profile = r]
    /\ pl_pc' = "collected"
    /\ UNCHANGED <<pl_request, pl_outcome>>
    /\ UNCHANGED plOthers

\* cover_letter_chain.py lines 76-80: step 4
GenerateCoverLetter ==
    /\ pl_pc = "collected"
    /\ pl_request.kind = "cover_letter"
    /\ \E reply \in WriterReplies(pl_request.kind) :
       \E r \in {WriteCoverLetter(pl_locals.job_description, pl_locals.filtered_profile, reply)} :
          /\ pl_calls' = Append(pl_calls,
                 Call("write_cover_letter",
                      <<pl_locals.job_description, pl_locals.filtered_profile>>, FALSE, r))
          /\ pl_locals' = [pl_locals EXCEPT !.cover_letter = r]
    /\ pl_pc' = "written"
    /\ UNCHANGED <<pl_request, pl_outcome>>
    /\ UNCHANGED plOthers

\* question_answer_chain.py lines 76-80: step 4; the local is named answer
GenerateAnswer ==
    /\ pl_pc = "collected"
    /\ pl_request.kind = "question_answer"
    /\ \E reply \in WriterReplies(pl_request.kind) :
       \E r \in {AnswerQuestion(pl_locals.job_description, pl_locals.filtered_profile,
                                pl_request.hr_question, reply)} :
          /\ pl_calls' = Append(pl_calls,
                 Call("answer_question",
                      <<pl_locals.job_description, pl_locals.filtered_profile,
                        pl_request.hr_question>>, FALSE, r))
          /\ pl_locals' = [pl_locals EXCEPT !.cover_letter = r]
    /\ pl_pc' = "written"
    /\ UNCHANGED <<pl_request, pl_outcome>>
    /\ UNCHANGED plOthers

\* lines 82-88: step 5, then the tuple is returned
GenerateFeedback ==
    /\ pl_pc = "written"
    /\ \E reply \in FeedbackReplies :
       \E r \in {ProvideFeedback(pl_locals.cover_letter, pl_locals.job_description,
                                 pl_locals.filtered_profile, reply)} :
          /\ pl_calls' = Append(pl_calls,
                 Call("provide_feedback",
                      <<pl_locals.cover_letter, pl_locals.job_description,
                        pl_locals.filtered_profile>>, FALSE, r))
          /\ pl_locals' = [pl_locals EXCEPT !.feedback = r]
          /\ pl_outcome' = <<pl_locals.cover_letter, r, pl_locals.job_description,
                             pl_locals.filtered_profile>>
    /\ pl_pc' = "returned"
    /\ UNCHANGED pl_request
    /\ UNCHANGED plOthers

PlNext ==
    \/ LoadFromUrl
    \/ LoadFromText
    \/ MissingJobDescription
    \/ NormalizeProfile
    \/ CollectRelevantData
    \/ GenerateCoverLetter
    \/ GenerateAnswer
    \/ GenerateFeedback

-----------------------------------------------------------------------------
(***************************************************************************)
(* SessionManager   (services/session_manager.py)                          *)
(* One JSON file per session under storage_path.  Every route that uses    *)
(* the manager is an async handler without an await between its calls, so  *)
(* one handler is one step, and its response is sent before the next one   *)
(* runs.                                                                   *)
(***************************************************************************)
MaxUuids == 3       \* uuid.uuid4() is called up to MaxUuids times
MaxSessions == 2    \* create_session is called up to MaxSessions times
MaxClock == 2       \* the clock runs from hour 0 to hour MaxClock

\* str(uuid.uuid4()): the n-th identifier handed out; no two are equal
Uuid(n) == "uuid-" \o ToString(n)
\* an id that no session was created with
UnknownId == "no-such-session"
SessionIds == {Uuid(n) : n \in 1..MaxUuids} \cup {UnknownId}

\* datetime: the hour h after 2025-01-01T00:00:00 is the number h
TwoDigits(n) == IF n < 10 THEN "0" \o ToString(n) ELSE ToString(n)
isoformat(h) ==
    "2025-01-" \o TwoDigits(1 + (h \div 24)) \o "T" \o TwoDigits(h % 24) \o ":00:00"
DigitValue(c) == CHOOSE d \in 0..9 : Ch(Digits, d + 1) = c
TwoDigitValue(s, i) == 10 * DigitValue(Ch(s, i)) + DigitValue(Ch(s, i + 1))
fromisoformat(s) == 24 * (TwoDigitValue(s, 9) - 1) + TwoDigitValue(s, 12)

\* a member of class MessageType(str, Enum), beside the values Str, Dict, ...
MessageType(v) == [t |-> "MessageType", s |-> v, kids |-> <<>>]
\* a == b: a member of a str-mixin Enum equals its value
PyEq(a, b) ==
    IF {a.t, b.t} \subseteq {"str", "MessageType"}
    THEN a.s = b.s
    ELSE a = b

\* what json.load reads back from what json.dump(..., default=str) wrote:
\* a str subclass is written as a JSON string, a dict key by key
RECURSIVE JsonRoundTrip(_)
JsonRoundTrip(v) ==
    IF v.t = "MessageType" THEN Str(v.s)
    ELSE [v EXCEPT !.kids = [i \in 1..Len(v.kids) |->
                                Entry(v.kids[i].k, JsonRoundTrip(v.kids[i].v))]]

JsonMessage(m) ==
    [id |-> m.id, type |-> JsonRoundTrip(m.type),
     content |-> JsonRoundTrip(m.content), timestamp |-> m.timestamp]

SessionData(session_id, current_job_url, current_profile_id, messages, created_at, updated_at) ==
    [session_id |-> session_id, current_job_url |-> current_job_url,
     current_profile_id |-> current_profile_id, messages |-> messages,
     created_at |-> created_at, updated_at |-> updated_at]

\* every method below takes the directory fs and answers [fs, ret]: the
\* directory afterwards and the value returned
save_session(fs, session_data) ==
    [fs EXCEPT ![session_data.session_id] =
        Some([session_id |-> session_data.session_id,
              current_job_url |-> session_data.current_job_url,
              current_profile_id |-> session_data.current_profile_id,
              messages |-> [i \in 1..Len(session_data.messages) |->
                               JsonMessage(session_data.messages[i])],
              created_at |-> isoformat(session_data.created_at),
              updated_at |-> isoformat(session_data.updated_at)])]

create_session(fs, now, session_id) ==
    LET Saved(session_data) ==
            [fs |-> save_session(fs, session_data), ret |-> session_data]
    IN Saved(SessionData(session_id, None, None, <<>>, now, now))

delete_session_KeepsFile(fs, session_id) == [fs |-> fs, ret |-> TRUE]
delete_session(fs, session_id) ==
    [fs |-> [fs EXCEPT ![session_id] = None], ret |-> TRUE]

get_session(fs, now, timeout, session_id) ==
    IF IsNone(fs[session_id])
    THEN [fs |-> fs, ret |-> None]
    ELSE LET Parsed(data) ==
                 SessionData(data.session_id, data.current_job_url,
                             data.current_profile_id, data.messages,
                             fromisoformat(data.created_at),
                             fromisoformat(data.updated_at))
             Checked(session_data) ==
                 IF now - session_data.updated_at > timeout
                 THEN [fs |-> delete_session(fs, session_id).fs, ret |-> None]
                 ELSE [fs |-> fs, ret |-> Some(session_data)]
         IN Checked(Parsed(fs[session_id][1]))

update_session(fs, now, session_data) ==
    LET Saved(sd) == [fs |-> save_session(fs, sd), ret |-> Some(sd)]
    IN Saved([session_data EXCEPT !.updated_at = now])

set_current_job_url(fs, now, timeout, session_id, job_url) ==
    LET Then(got) ==
            IF ~IsNone(got.ret)
            THEN update_session(got.fs, now,
                     [got.ret[1] EXCEPT !.current_job_url = Some(job_url)])
            ELSE [fs |-> got.fs, ret |-> None]
    IN Then(get_session(fs, now, timeout, session_id))

set_current_profile_id(fs, now, timeout, session_id, profile_id) ==
    LET Then(got) ==
            IF ~IsNone(got.ret)
            THEN update_session(got.fs, now,
                     [got.ret[1] EXCEPT !.current_profile_id = Some(profile_id)])
            ELSE [fs |-> got.fs, ret |-> None]
    IN Then(get_session(fs, now, timeout, session_id))

\* message_id is what uuid.uuid4() answers inside the call
add_message_Prepends(fs, now, timeout, session_id, message_type, content, timestamp, message_id) ==
    LET message ==
            [id |-> message_id, type |-> message_type, content |-> content,
             timestamp |-> isoformat(IF IsNone(timestamp) THEN now
                                     ELSE timestamp[1])]
        Then(got) ==
            IF ~IsNone(got.ret)
            THEN update_session(got.fs, now,
                     [got.ret[1] EXCEPT !.messages = <<message>> \o @])
            ELSE [fs |-> got.fs, ret |-> None]
    IN Then(get_session(fs, now, timeout, session_id))
add_message(fs, now, timeout, session_id, message_type, content, timestamp, message_id) ==
    LET message ==
            [id |-> message_id, type |-> message_type, content |-> content,
             timestamp |-> isoformat(IF IsNone(timestamp) THEN now
                                     ELSE timestamp[1])]
        Then(got) ==
            IF ~IsNone(got.ret)
            THEN update_session(got.fs, now,
                     [got.ret[1] EXCEPT !.messages = Append(@, message)])
            ELSE [fs |-> got.fs, ret |-> None]
    IN Then(get_session(fs, now, timeout, session_id))

get_messages(fs, now, timeout, session_id) ==
    LET Then(got) ==
            [fs |-> got.fs,
             ret |-> IF ~IsNone(got.ret) THEN got.ret[1].messages ELSE <<>>]
    IN Then(get_session(fs, now, timeout, session_id))

clear_messages(fs, now, timeout, session_id) ==
    LET Then(got) ==
            IF ~IsNone(got.ret)
            THEN update_session(got.fs, now,
                     [got.ret[1] EXCEPT !.messages = <<>>])
            ELSE [fs |-> got.fs, ret |-> None]
    IN Then(get_session(fs, now, timeout, session_id))

\* get_session touches no file but its own, so the order of the glob does
\* not matter
cleanup_expired_sessions(fs, now, timeout) ==
    LET Got(id) == get_session(fs, now, timeout, id)
        Files == {id \in DOMAIN fs : ~IsNone(fs[id])}
    IN [fs |-> [id \in DOMAIN fs |-> Got(id).fs[id]],
        ret |-> Cardinality({id \in Files : IsNone(Got(id).ret)})]

\* ---- inputs ----
SessionTimeouts == {1}       \* session_timeout_hours
JobUrls == {"https://careers.acme.com/jobs/1"}
ProfileIds == {"profile-123"}
\* the (message_type, content) pairs a caller passes: a member of the enum
\* with a str, a plain str (what the route passes) with a nested dict
Messages ==
    {<<MessageType("user"), Str("Hello, I need help with a job application")>>,
     <<Str("assistant"),
       Dict(<<Entry("type", Str("cover_letter")),
              Entry("data", Dict(<<Entry("title", Str("Test"))>>))>>)>>}
Timestamps == {None}

\* the call a handler has just made: its arguments, the stored document of
\* the session before the call and the value returned
NoCall == [op |-> "none", session_id |-> "", args |-> <<>>, before |-> None,
           ret |-> None]
LastCall(op, session_id, args, ret) ==
    [op |-> op, session_id |-> session_id, args |-> args,
     before |-> sm_files[session_id], ret |-> ret]

SmIdle ==
    /\ sm_files = <<>>
    /\ sm_timeout = 0
    /\ sm_now = 0
    /\ sm_uuids = 0
    /\ sm_log = <<>>
    /\ sm_deleted = {}
    /\ sm_last = NoCall

\* SessionManager(storage_path, session_timeout_hours) on an empty directory
SmInit ==
    /\ sm_files = [id \in SessionIds |-> None]
    /\ sm_timeout \in SessionTimeouts
    /\ sm_now = 0
    /\ sm_uuids = 0
    /\ sm_log = <<>>
    /\ sm_deleted = {}
    /\ sm_last = NoCall

smOthers == <<exVars, vaVars, nzVars, mdVars, ncVars, rtVars, ldVars, plVars,
              psVars, extVars>>

\* the ids a client can present: those handed out so far, or a made-up one
KnownIds == DOMAIN sm_log \cup {UnknownId}

\* POST /sessions
CreateSession ==
    /\ sm_last.op = "none"
    /\ sm_uuids < MaxUuids
    /\ Cardinality(DOMAIN sm_log) < MaxSessions
    /\ \E r \in {create_session(sm_files, sm_now, Uuid(sm_uuids + 1))} :
         /\ sm_files' = r.fs
         /\ sm_last' = LastCall("create_session", r.ret.session_id, <<>>,
                                Some(r.ret))
    /\ sm_uuids' = sm_uuids + 1
    /\ sm_log' = [id \in DOMAIN sm_log \cup {Uuid(sm_uuids + 1)} |->
                     IF id \in DOMAIN sm_log THEN sm_log[id] ELSE <<>>]
    /\ UNCHANGED <<sm_timeout, sm_now, sm_deleted, smOthers>>

\* GET /sessions/{session_id}
GetSession ==
    /\ sm_last.op = "none"
    /\ \E id \in KnownIds :
         \E r \in {get_session(sm_files, sm_now, sm_timeout, id)} :
            /\ sm_files' = r.fs
            /\ sm_last' = LastCall("get_session", id, <<>>, r.ret)
    /\ UNCHANGED <<sm_timeout, sm_now, sm_uuids, sm_log, sm_deleted, smOthers>>

\* PUT /sessions/{session_id}: get_session, set the fields the request
\* carries, update_session
UpdateSession ==
    /\ sm_last.op = "none"
    /\ \E id \in KnownIds, url \in {None} \cup {Some(u) : u \in JobUrls},
          pid \in {None} \cup {Some(p) : p \in ProfileIds} :
         LET Then(got) ==
                 IF IsNone(got.ret)
                 THEN [fs |-> got.fs, ret |-> None]
                 ELSE update_session(got.fs, sm_now,
                          [got.ret[1] EXCEPT
                              !.current_job_url =
                                  IF IsNone(url) THEN @ ELSE url,
                              !.current_profile_id =
                                  IF IsNone(pid) THEN @ ELSE pid])
         IN \E r \in {Then(get_session(sm_files, sm_now, sm_timeout, id))} :
               /\ sm_files' = r.fs
               /\ sm_last' = LastCall("update_session", id,
                                 [current_job_url |-> url,
                                  current_profile_id |-> pid], r.ret)
    /\ UNCHANGED <<sm_timeout, sm_now, sm_uuids, sm_log, sm_deleted, smOthers>>

SetCurrentJobUrl ==
    /\ sm_last.op = "none"
    /\ \E id \in KnownIds, url \in JobUrls :
         \E r \in {set_current_job_url(sm_files, sm_now, sm_timeout, id, url)} :
            /\ sm_files' = r.fs
            /\ sm_last' = LastCall("set_current_job_url", id,
                                   [job_url |-> url], r.ret)
    /\ UNCHANGED <<sm_timeout, sm_now, sm_uuids, sm_log, sm_deleted, smOthers>>

SetCurrentProfileId ==
    /\ sm_last.op = "none"
    /\ \E id \in KnownIds, pid \in ProfileIds :
         \E r \in {set_current_profile_id(sm_files, sm_now, sm_timeout, id, pid)} :
            /\ sm_files' = r.fs
            /\ sm_last' = LastCall("set_current_profile_id", id,
                                   [profile_id |-> pid], r.ret)
    /\ UNCHANGED <<sm_timeout, sm_now, sm_uuids, sm_log, sm_deleted, smOthers>>

\* POST /sessions/{session_id}/messages
AddMessage ==
    /\ sm_last.op = "none"
    /\ sm_uuids < MaxUuids
    /\ \E id \in KnownIds, m \in Messages, timestamp \in Timestamps :
         \E r \in {add_message(sm_files, sm_now, sm_timeout, id, m[1], m[2],
                               timestamp, Uuid(sm_uuids + 1))} :
            /\ sm_files' = r.fs
            /\ sm_last' = LastCall("add_message", id,
                              [message_type |-> m[1], content |-> m[2],
                               timestamp |-> timestamp], r.ret)
            \* uuid4 is drawn only when the session was found
            /\ sm_uuids' = IF IsNone(r.ret) THEN sm_uuids ELSE sm_uuids + 1
            /\ sm_log' = IF IsNone(r.ret) THEN sm_log
                         ELSE [sm_log EXCEPT ![id] = Append(@, m)]
    /\ UNCHANGED <<sm_timeout, sm_now, sm_deleted, smOthers>>

GetMessages ==
    /\ sm_last.op = "none"
    /\ \E id \in KnownIds :
         \E r \in {get_messages(sm_files, sm_now, sm_timeout, id)} :
            /\ sm_files' = r.fs
            /\ sm_last' = LastCall("get_messages", id, <<>>, r.ret)
    /\ UNCHANGED <<sm_timeout, sm_now, sm_uuids, sm_log, sm_deleted, smOthers>>

\* DELETE /sessions/{session_id}/messages
ClearMessages ==
    /\ sm_last.op = "none"
    /\ \E id \in KnownIds :
         \E r \in {clear_messages(sm_files, sm_now, sm_timeout, id)} :
            /\ sm_files' = r.fs
            /\ sm_last' = LastCall("clear_messages", id, <<>>, r.ret)
            /\ sm_log' = IF IsNone(r.ret) THEN sm_log
                         ELSE [sm_log EXCEPT ![id] = <<>>]
    /\ UNCHANGED <<sm_timeout, sm_now, sm_uuids, sm_deleted, smOthers>>

\* DELETE /sessions/{session_id}
DeleteSession ==
    /\ sm_last.op = "none"
    /\ \E id \in KnownIds :
         \E r \in {delete_session(sm_files, id)} :
            /\ sm_files' = r.fs
            /\ sm_last' = LastCall("delete_session", id, <<>>, r.ret)
            /\ sm_deleted' = sm_deleted \cup {id}
    /\ UNCHANGED <<sm_timeout, sm_now, sm_uuids, sm_log, smOthers>>

\* POST /sessions/cleanup
CleanupExpiredSessions ==
    /\ sm_last.op = "none"
    /\ \E r \in {cleanup_expired_sessions(sm_files, sm_now, sm_timeout)} :
         /\ sm_files' = r.fs
         /\ sm_last' = [LastCall("cleanup_expired_sessions", UnknownId, <<>>,
                                 r.ret) EXCEPT !.session_id = ""]
    /\ UNCHANGED <<sm_timeout, sm_now, sm_uuids, sm_log, sm_deleted, smOthers>>

\* an hour passes between two requests
HourPasses ==
    /\ sm_last.op = "none"
    /\ sm_now < MaxClock
    /\ sm_now' = sm_now + 1
    /\ UNCHANGED <<sm_files, sm_timeout, sm_uuids, sm_log, sm_deleted, sm_last,
                   smOthers>>

\* the handler's response is sent and the next request is taken up
ResponseSent ==
    /\ sm_last.op # "none"
    /\ sm_last' = NoCall
    /\ UNCHANGED <<sm_files, sm_timeout, sm_now, sm_uuids, sm_log, sm_deleted,
                   smOthers>>

SmNext ==
    \/ CreateSession
    \/ GetSession
    \/ UpdateSession
    \/ SetCurrentJobUrl
    \/ SetCurrentProfileId
    \/ AddMessage
    \/ GetMessages
    \/ ClearMessages
    \/ DeleteSession
    \/ CleanupExpiredSessions
    \/ HourPasses
    \/ ResponseSent

-----------------------------------------------------------------------------
(***************************************************************************)
(* ProfileStorageService   (services/profile_storage.py)                   *)
(* One JSON document {"profiles": [...], "default_profile_id": ...}; every *)
(* method loads it, changes it and saves it.                               *)
(***************************************************************************)
\* str(datetime): what json.dump(..., default=str) writes for a datetime
DatetimeStr(h) ==
    "2025-01-" \o TwoDigits(1 + (h \div 24)) \o " " \o TwoDigits(h % 24) \o ":00:00"

StoredUserProfile(id, name, user_profile, created_at, updated_at, is_default) ==
    [id |-> id, name |-> name, user_profile |-> user_profile,
     created_at |-> created_at, updated_at |-> updated_at,
     is_default |-> is_default]

\* StoredUserProfile(**profile_data): the datetime fields are parsed
ParseStoredProfile(stored) ==
    [stored EXCEPT !.created_at = fromisoformat(@),
                         !.updated_at = fromisoformat(@)]

ProfileCreateRequest(name, user_profile, is_default) ==
    [name |-> name, user_profile |-> user_profile, is_default |-> is_default]
ProfileUpdateRequest(name, user_profile, is_default) ==
    [name |-> name, user_profile |-> user_profile, is_default |-> is_default]

\* {"profiles": [], "default_profile_id": None}
InitialData == [profiles |-> <<>>, default_profile_id |-> None]

\* the positions of the stored profiles with this id
PositionsOf(data, profile_id) ==
    {i \in 1..Len(data.profiles) : data.profiles[i].id = profile_id}

\* every method below takes the loaded document and answers [data, ret]:
\* the document it leaves in the file and the value returned
create_profile(data, now, request, profile_id) ==
    LET stored_profile ==
            StoredUserProfile(profile_id, request.name, request.user_profile,
                              now, now, request.is_default)
        profile_dict ==
            [stored_profile EXCEPT !.created_at = DatetimeStr(@),
                                   !.updated_at = DatetimeStr(@)]
    IN [data |->
           [profiles |->
               Append(IF request.is_default
                      THEN [i \in 1..Len(data.profiles) |->
                               [data.profiles[i] EXCEPT !.is_default = FALSE]]
                      ELSE data.profiles,
                      profile_dict),
            default_profile_id |->
               IF request.is_default THEN Some(profile_id)
               ELSE data.default_profile_id],
        ret |-> stored_profile]

get_profile(data, profile_id) ==
    IF PositionsOf(data, profile_id) = {}
    THEN [data |-> data, ret |-> None]
    ELSE [data |-> data,
          ret |-> Some(ParseStoredProfile(
                          data.profiles[SetMin(PositionsOf(data, profile_id))]))]

get_all_profiles(data) ==
    [data |-> data,
     ret |-> [i \in 1..Len(data.profiles) |-> ParseStoredProfile(data.profiles[i])]]

get_default_profile(data) ==
    IF ~IsNone(data.default_profile_id)
    THEN get_profile(data, data.default_profile_id[1])
    ELSE [data |-> data, ret |-> None]

update_profile_KeepsOthers(data, now, profile_id, request) ==
    IF PositionsOf(data, profile_id) = {}
    THEN [data |-> data, ret |-> None]
    ELSE LET Updated(i) ==
                 [data.profiles[i] EXCEPT
                     !.name = IF IsNone(request.name) THEN @ ELSE request.name[1],
                     !.user_profile = IF IsNone(request.user_profile) THEN @
                                      ELSE request.user_profile[1],
                     !.is_default = IF IsNone(request.is_default) THEN @
                                    ELSE request.is_default[1],
                     !.updated_at = isoformat(now)]
             Saved(i) ==
                 [data |->
                     [profiles |-> [data.profiles EXCEPT ![i] = Updated(i)],
                      default_profile_id |->
                         IF request.is_default = Some(TRUE) THEN Some(profile_id)
                         ELSE data.default_profile_id],
                  ret |-> Some(ParseStoredProfile(Updated(i)))]
         IN Saved(SetMin(PositionsOf(data, profile_id)))
update_profile(data, now, profile_id, request) ==
    IF PositionsOf(data, profile_id) = {}
    THEN [data |-> data, ret |-> None]
    ELSE LET Updated(i) ==
                 [data.profiles[i] EXCEPT
                     !.name = IF IsNone(request.name) THEN @ ELSE request.name[1],
                     !.user_profile = IF IsNone(request.user_profile) THEN @
                                      ELSE request.user_profile[1],
                     !.is_default = IF IsNone(request.is_default) THEN @
                                    ELSE request.is_default[1],
                     !.updated_at = isoformat(now)]
             Saved(i) ==
                 [data |->
                     [profiles |->
                         [j \in 1..Len(data.profiles) |->
                             IF j = i THEN Updated(i)
                             ELSE IF request.is_default = Some(TRUE)
                             THEN [data.profiles[j] EXCEPT !.is_default = FALSE]
                             ELSE data.profiles[j]],
                      default_profile_id |->
                         IF request.is_default = Some(TRUE) THEN Some(profile_id)
                         ELSE data.default_profile_id],
                  ret |-> Some(ParseStoredProfile(Updated(i)))]
         IN Saved(SetMin(PositionsOf(data, profile_id)))

delete_profile(data, profile_id) ==
    IF PositionsOf(data, profile_id) = {}
    THEN [data |-> data, ret |-> FALSE]
    ELSE LET Popped(i) ==
                 [data |->
                     [profiles |->
                         SubSeq(data.profiles, 1, i - 1)
                             \o SubSeq(data.profiles, i + 1, Len(data.profiles)),
                      default_profile_id |->
                         IF data.profiles[i].is_default THEN None
                         ELSE data.default_profile_id],
                  ret |-> TRUE]
         IN Popped(SetMin(PositionsOf(data, profile_id)))

set_default_profile(data, profile_id) ==
    IF PositionsOf(data, profile_id) = {}
    THEN [data |-> data, ret |-> FALSE]
    ELSE [data |->
             [profiles |->
                 [i \in 1..Len(data.profiles) |->
                     [data.profiles[i] EXCEPT
                         !.is_default = (data.profiles[i].id = profile_id)]],
              default_profile_id |-> Some(profile_id)],
          ret |-> TRUE]

\* ---- inputs ----
ProfileNames == {"Test Profile"}
UserProfiles == {"software engineer"}
CreateRequests ==
    {ProfileCreateRequest(n, u, d) :
        n \in ProfileNames, u \in UserProfiles, d \in BOOLEAN}
UpdateRequests ==
    {ProfileUpdateRequest(n, None, d) :
        n \in {None, Some("Updated Test Profile")},
        d \in {None, Some(TRUE), Some(FALSE)}}

\* the call a handler has just made: the stored document before it, its
\* arguments and the value returned
NoStorageCall ==
    [before |-> <<>>, op |-> "none", profile_id |-> "", request |-> <<>>,
     ret |-> None]

PsIdle ==
    /\ ps_data = InitialData
    /\ ps_now = 0
    /\ ps_uuids = 0
    /\ ps_last = NoStorageCall

\* ProfileStorageService(storage_path) on a path without a file; the
\* requests that follow arrive within the hour ps_now
PsInit ==
    /\ ps_data = InitialData
    /\ ps_now \in 0..MaxClock
    /\ ps_uuids = 0
    /\ ps_last = NoStorageCall

psOthers == <<exVars, vaVars, nzVars, mdVars, ncVars, rtVars, ldVars, plVars,
              smVars, extVars>>

\* the ids a client can present: those handed out so far, or a made-up one
KnownProfileIds == {Uuid(n) : n \in 1..ps_uuids} \cup {"no-such-profile"}

\* POST /profiles
CreateProfile ==
    /\ ps_last.op = "none"
    /\ ps_uuids < MaxUuids
    /\ \E request \in CreateRequests :
         \E r \in {create_profile(ps_data, ps_now, request, Uuid(ps_uuids + 1))} :
            /\ ps_data' = r.data
            /\ ps_last' = [before |-> ps_data, op |-> "create_profile", profile_id |-> r.ret.id,
                           request |-> request, ret |-> Some(r.ret)]
    /\ ps_uuids' = ps_uuids + 1
    /\ UNCHANGED <<ps_now, psOthers>>

\* GET /profiles/{profile_id}
GetProfile ==
    /\ ps_last.op = "none"
    /\ \E id \in KnownProfileIds :
         \E r \in {get_profile(ps_data, id)} :
            /\ ps_data' = r.data
            /\ ps_last' = [before |-> ps_data, op |-> "get_profile", profile_id |-> id,
                           request |-> <<>>, ret |-> r.ret]
    /\ UNCHANGED <<ps_now, ps_uuids, psOthers>>

\* GET /profiles
ListProfiles ==
    /\ ps_last.op = "none"
    /\ \E r \in {get_all_profiles(ps_data)} :
         /\ ps_data' = r.data
         /\ ps_last' = [before |-> ps_data, op |-> "get_all_profiles", profile_id |-> "",
                        request |-> <<>>, ret |-> r.ret]
    /\ UNCHANGED <<ps_now, ps_uuids, psOthers>>

\* GET /profiles/default
GetDefaultProfile ==
    /\ ps_last.op = "none"
    /\ \E r \in {get_default_profile(ps_data)} :
         /\ ps_data' = r.data
         /\ ps_last' = [before |-> ps_data, op |-> "get_default_profile", profile_id |-> "",
                        request |-> <<>>, ret |-> r.ret]
    /\ UNCHANGED <<ps_now, ps_uuids, psOthers>>

\* PUT /profiles/{profile_id}
UpdateProfile ==
    /\ ps_last.op = "none"
    /\ \E id \in KnownProfileIds, request \in UpdateRequests :
         \E r \in {update_profile(ps_data, ps_now, id, request)} :
            /\ ps_data' = r.data
            /\ ps_last' = [before |-> ps_data, op |-> "update_profile", profile_id |-> id,
                           request |-> request, ret |-> r.ret]
    /\ UNCHANGED <<ps_now, ps_uuids, psOthers>>

\* DELETE /profiles/{profile_id}
DeleteProfile ==
    /\ ps_last.op = "none"
    /\ \E id \in KnownProfileIds :
         \E r \in {delete_profile(ps_data, id)} :
            /\ ps_data' = r.data
            /\ ps_last' = [before |-> ps_data, op |-> "delete_profile", profile_id |-> id,
                           request |-> <<>>, ret |-> r.ret]
    /\ UNCHANGED <<ps_now, ps_uuids, psOthers>>

\* POST /profiles/{profile_id}/set-default
SetDefaultProfile ==
    /\ ps_last.op = "none"
    /\ \E id \in KnownProfileIds :
         \E r \in {set_default_profile(ps_data, id)} :
            /\ ps_data' = r.data
            /\ ps_last' = [before |-> ps_data, op |-> "set_default_profile", profile_id |-> id,
                           request |-> <<>>, ret |-> r.ret]
    /\ UNCHANGED <<ps_now, ps_uuids, psOthers>>

\* the handler's response is sent and the next request is taken up
StorageResponseSent ==
    /\ ps_last.op # "none"
    /\ ps_last' = NoStorageCall
    /\ UNCHANGED <<ps_data, ps_now, ps_uuids, psOthers>>

PsNext ==
    \/ CreateProfile
    \/ GetProfile
    \/ ListProfiles
    \/ GetDefaultProfile
    \/ UpdateProfile
    \/ DeleteProfile
    \/ SetDefaultProfile
    \/ StorageResponseSent

-----------------------------------------------------------------------------
(***************************************************************************)
(* handle_llm_errors(func): the wrapper awaits func and handles what it    *)
(* raises.  A call with keyword arguments is a call with a record of them. *)
(***************************************************************************)
\* the call LLMError(message, **kwargs): [raises, value].  __init__ takes
\* message, provider and model; any other keyword makes the call itself
\* raise TypeError and no LLMError is built
CallLLMError(message, kwargs) ==
    IF DOMAIN kwargs \subseteq {"provider", "model"}
    THEN [raises |-> FALSE,
          value |-> LLMError(message,
                             IF "provider" \in DOMAIN kwargs THEN kwargs.provider ELSE None,
                             IF "model" \in DOMAIN kwargs THEN kwargs.model ELSE None)]
    ELSE [raises |-> TRUE,
          value |-> PyException("TypeError",
                                "LLMError.__init__() got an unexpected keyword argument")]

\* the statement "raise LLMError(message, user_message=...) from e": the
\* exception that leaves the except clause
RaiseLLMError(message, user_message) ==
    CallLLMError(message, [user_message |-> user_message]).value

\* the except clause of wrapper, lines 259-293: the exception that leaves it
HandleLLMError(e) ==
    LET Branch(error_msg) ==
            IF \/ Contains(error_msg, "api key")
               \/ Contains(error_msg, "authentication")
               \/ Contains(error_msg, "unauthorized")
            THEN RaiseLLMError("API authentication failed",
                               "AI service configuration error")
            ELSE IF Contains(error_msg, "rate limit") \/ Contains(error_msg, "quota")
            THEN RaiseLLMError("Rate limit exceeded",
                               "AI service is busy, please try again later")
            ELSE IF Contains(error_msg, "timeout")
            THEN RaiseLLMError("Request timed out",
                               "AI response timed out, please try again")
            ELSE IF IsJobAgentError(e) THEN e
            ELSE RaiseLLMError("AI service error: " \o e.message,
                               "AI service temporarily unavailable")
    IN  Branch(Lower(e.message))

\* what the wrapped function may raise: str(e) is the message
ErrorMessages ==
    {"Invalid API key provided", "Authentication required", "401 Unauthorized",
     "Rate limit reached for requests", "You exceeded your current quota",
     "Request timeout after 30s", "Connection reset by peer", ""}
WrappedErrors ==
    {PyException(c, m) : c \in {"ValueError", "RuntimeError", "TimeoutError"},
                         m \in ErrorMessages}
    \cup {JobAgentError(m, c, <<>>, None) : m \in ErrorMessages, c \in ErrorCategory}
    \cup {NetworkError(m, None, None) : m \in ErrorMessages}
    \cup {ValidationError(m, None, None) : m \in ErrorMessages}
    \cup {LLMError(m, None, None) : m \in ErrorMessages}

HeIdle == he_pc = "idle" /\ he_func = <<>> /\ he_outcome = <<>>

HeInit ==
    /\ he_pc = "start"
    /\ he_func \in {FuncReturn} \cup WrappedErrors
    /\ he_outcome = <<>>

heOthers == <<exVars, vaVars, nzVars, mdVars, ncVars, rtVars, ldVars, plVars,
              smVars, psVars, ccVars>>

\* line 258: func returns and the wrapper returns its value
ReturnValue ==
    /\ he_pc = "start"
    /\ he_func.class = "return"
    /\ he_outcome' = he_func
    /\ he_pc' = "returned"
    /\ UNCHANGED <<he_func, heOthers>>

\* lines 259-293: func raises an Exception and the except clause handles it
HandleError ==
    /\ he_pc = "start"
    /\ he_func.class # "return"
    /\ he_outcome' = HandleLLMError(he_func)
    /\ he_pc' = "raised"
    /\ UNCHANGED <<he_func, heOthers>>

HeNext == ReturnValue \/ HandleError

-----------------------------------------------------------------------------
(***************************************************************************)
(* SessionManager used by several requests at a time.  The manager takes   *)
(* no lock and keeps nothing in memory: add_message and                    *)
(* set_current_job_url read the file of the session (get_session), change  *)
(* the loaded SessionData and write the whole file again (_save_session).  *)
(* Inside one event loop a handler runs from its read to its write without *)
(* an await; the steps of two requests interleave when the storage         *)
(* directory is served by more than one worker process or thread.  A       *)
(* request is a record of the method it calls, its position and its local  *)
(* session_data.                                                           *)
(***************************************************************************)
MaxRequests == 3
Requests == 1..MaxRequests

\* session_timeout_hours, the default of SessionManager.__init__
DefaultTimeoutHours == 24

\* the session every request addresses, and what request r sends
SharedSession == Uuid(1)
MessageIdOf(r) == Uuid(r + 1)
ContentOf(r) == Str("message " \o ToString(r))
SharedJobUrl == "https://careers.acme.com/jobs/1"

SessionMethods == {"add_message", "set_current_job_url", "delete_session"}

Request(method) == [method |-> method, pc |-> "start", session_data |-> None]

CcIdle ==
    /\ cc_files = <<>>
    /\ cc_requests = <<>>
    /\ cc_deleted = FALSE

\* the session exists, and every request is about to call its method
CcInit ==
    /\ cc_files = create_session([id \in {SharedSession} |-> None], 0, SharedSession).fs
    /\ \E methods \in [Requests -> SessionMethods] :
          cc_requests = [r \in Requests |-> Request(methods[r])]
    /\ cc_deleted = FALSE

ccOthers == <<exVars, vaVars, nzVars, mdVars, ncVars, rtVars, ldVars, plVars,
              smVars, psVars, heVars>>

\* lines 105 and 129: session_data = self.get_session(session_id); without
\* the file the method returns None
LoadStep(r) ==
    /\ cc_requests[r].pc = "start"
    /\ cc_requests[r].method \in {"add_message", "set_current_job_url"}
    /\ \E got \in {get_session(cc_files, 0, DefaultTimeoutHours, SharedSession)} :
          /\ cc_files' = got.fs
          /\ cc_requests' =
                [cc_requests EXCEPT ![r].session_data = got.ret,
                                    ![r].pc = IF IsNone(got.ret) THEN "done"
                                              ELSE "loaded"]
    /\ UNCHANGED <<cc_deleted, ccOthers>>

\* lines 106-108 and 130-138: the loaded session_data after the change the
\* method makes to it
Changed(r, session_data) ==
    IF cc_requests[r].method = "add_message"
    THEN [session_data EXCEPT
             !.messages = Append(@, [id |-> MessageIdOf(r),
                                     type |-> MessageType("user"),
                                     content |-> ContentOf(r),
                                     timestamp |-> isoformat(0)])]
    ELSE [session_data EXCEPT !.current_job_url = Some(SharedJobUrl)]

\* lines 108 and 138: return self.update_session(session_data), which
\* writes the file of the session whether or not it still exists
SaveStep(r) ==
    /\ cc_requests[r].pc = "loaded"
    /\ cc_files' = update_session(cc_files, 0,
                                  Changed(r, cc_requests[r].session_data[1])).fs
    /\ cc_requests' = [cc_requests EXCEPT ![r].pc = "done"]
    /\ UNCHANGED <<cc_deleted, ccOthers>>

\* lines 154-161: delete_session unlinks the file
DeleteStep(r) ==
    /\ cc_requests[r].pc = "start"
    /\ cc_requests[r].method = "delete_session"
    /\ cc_files' = delete_session(cc_files, SharedSession).fs
    /\ cc_requests' = [cc_requests EXCEPT ![r].pc = "done"]
    /\ cc_deleted' = TRUE
    /\ UNCHANGED ccOthers

CcNext == \E r \in Requests : LoadStep(r) \/ SaveStep(r) \/ DeleteStep(r)

-----------------------------------------------------------------------------
(***************************************************************************)
(* Specifications                                                          *)
(***************************************************************************)
\* each component is checked on its own: the other components stay idle
VaIdle == va_pc = "idle" /\ va_url = "" /\ va_result = <<>> /\ va_detected = <<>>
ExtIdle == HeIdle /\ CcIdle
SvcIdle == SmIdle /\ PsIdle /\ ExtIdle
AuxIdle == NcIdle /\ RtIdle /\ LdIdle /\ PlIdle /\ SvcIdle

InitExtract == ExInit /\ VaIdle /\ NzIdle /\ MdIdle /\ AuxIdle
SpecExtract == InitExtract /\ [][ExNext]_vars

InitUrl == VaInit /\ ExIdle /\ NzIdle /\ MdIdle /\ AuxIdle
SpecUrl == InitUrl /\ [][VaNext]_vars

InitNorm == NzInit /\ ExIdle /\ VaIdle /\ MdIdle /\ AuxIdle
SpecNorm == InitNorm /\ [][NzNext]_vars

InitMod == MdInit /\ ExIdle /\ VaIdle /\ NzIdle /\ AuxIdle
SpecMod == InitMod /\ [][MdNext]_vars

CoreIdle == ExIdle /\ VaIdle /\ NzIdle /\ MdIdle

\* the coroutine is driven by the event loop until it returns or raises
InitRetry == RtInit /\ CoreIdle /\ NcIdle /\ LdIdle /\ PlIdle /\ SvcIdle
SpecRetry == InitRetry /\ [][RtNext]_vars /\ WF_vars(RtNext)

InitLoad == LdInit /\ CoreIdle /\ NcIdle /\ RtIdle /\ PlIdle /\ SvcIdle
SpecLoad == InitLoad /\ [][LdNext]_vars

InitPipeline == PlInit /\ CoreIdle /\ NcIdle /\ RtIdle /\ LdIdle /\ SvcIdle
SpecPipeline == InitPipeline /\ [][PlNext]_vars

InitNormCalls == NcInit /\ CoreIdle /\ RtIdle /\ LdIdle /\ PlIdle /\ SvcIdle
SpecNormCalls == InitNormCalls /\ [][NcNext]_vars

InitSession ==
    SmInit /\ CoreIdle /\ NcIdle /\ RtIdle /\ LdIdle /\ PlIdle /\ PsIdle /\ ExtIdle
SpecSession == InitSession /\ [][SmNext]_vars

InitProfiles ==
    PsInit /\ CoreIdle /\ NcIdle /\ RtIdle /\ LdIdle /\ PlIdle /\ SmIdle /\ ExtIdle
SpecProfiles == InitProfiles /\ [][PsNext]_vars

InitErrors ==
    /\ HeInit /\ CoreIdle /\ NcIdle /\ RtIdle /\ LdIdle /\ PlIdle /\ SmIdle /\ PsIdle
    /\ CcIdle
SpecErrors == InitErrors /\ [][HeNext]_vars

InitConcurrent ==
    /\ CcInit /\ CoreIdle /\ NcIdle /\ RtIdle /\ LdIdle /\ PlIdle /\ SmIdle /\ PsIdle
    /\ HeIdle
SpecConcurrent == InitConcurrent /\ [][CcNext]_vars

-----------------------------------------------------------------------------
(***************************************************************************)
(* Properties of the extractor (SpecExtract)                               *)
(***************************************************************************)
NoDuplicates(seq) == \A i, j \in 1..Len(seq) : seq[i] = seq[j] => i = j

\* C1: every job posting that _parse_html_content returns has a non-empty
\* role_summary and a non-empty company_context.
C1_SummaryAndContextNonEmpty ==
    ex_pc = "done" => Len(role_summary) > 0 /\ Len(company_context) > 0

\* C1 witness: a posting returned for the empty page, where both fields are
\* the synthetic fallbacks.
C1_Witness ==
    /\ ex_pc = "done"
    /\ html_content = ""
    /\ role_summary = "This is a job position requiring specific skills and experience."
    /\ company_context = "This is a position at Careers."

\* C2: the responsibilities and the requirements the extractor returns hold
\* at most 10 items each and no two equal strings.
C2_ListsCappedAndDistinct ==
    ex_pc \in {"lists", "summary", "done", "raised"} =>
        /\ Len(responsibilities) <= 10
        /\ Len(requirements) <= 10
        /\ NoDuplicates(responsibilities)
        /\ NoDuplicates(requirements)

\* C2 witness: a text whose responsibilities section yields more than 10
\* items, some of them repeated, has been cut to 10 distinct items.
C2_Witness ==
    /\ ex_pc = "done"
    /\ Len(ItemsOfPatterns(resp_patterns, text_content)) > 10
    /\ ~NoDuplicates(ItemsOfPatterns(resp_patterns, text_content))
    /\ Cardinality(Range(ItemsOfPatterns(resp_patterns, text_content))) > 10
    /\ Len(responsibilities) = 10

\* C3: _parse_html_content never raises, whatever the page and the URL.
C3_ExtractionNeverRaises == ex_pc # "raised"

\* C4: for the page <h1>Senior Backend Engineer</h1> followed by the section
\* "Responsibilities:" with the bullets "- Build APIs" and "- Write code",
\* the extractor returns the title "Senior Backend Engineer" and
\* responsibilities that contain "Build APIs" and "Write code"; a cleaned
\* line of 10 characters is kept.
C4_TenCharacterItemsKept ==
    (/\ ex_pc = "done"
     /\ html_content = "<h1>Senior Backend Engineer</h1><p>Responsibilities:\n- Build APIs\n- Write code</p>")
    => /\ title = Some("Senior Backend Engineer")
       /\ "Build APIs" \in Range(responsibilities)
       /\ "Write code" \in Range(responsibilities)

-----------------------------------------------------------------------------
(***************************************************************************)
(* Properties of the URL classifier (SpecUrl)                              *)
(***************************************************************************)
\* the host of a URL: its netloc in lower case ("" when urlparse rejects it)
HostOf(url) ==
    LET Host(parsed) == IF parsed.raises THEN "" ELSE Lower(parsed.netloc)
    IN  Host(UrlParse(url))

\* the host is the domain itself or one of its subdomains
HostIs(host, domain) ==
    \/ host = domain
    \/ /\ Len(host) > Len(domain) + 1
       /\ StartsWithAt(host, Len(host) - Len(domain), "." \o domain)
HostIn(url, domain) == HostIs(HostOf(url), domain)

OnBlockedHost(url) == \E i \in 1..Len(BlockedDomains) : HostIn(url, BlockedDomains[i])

\* the host belongs to a named job board of SUPPORTED_PLATFORMS
OnNamedBoard(url) ==
    \E i \in 1..Len(SUPPORTED_PLATFORMS) :
        \E j \in 1..Len(SUPPORTED_PLATFORMS[i].domains) :
            HostIn(url, SUPPORTED_PLATFORMS[i].domains[j])

\* C5: a URL whose host is facebook.com, twitter.com, instagram.com or
\* youtube.com (or a subdomain) is reported with valid = false, whatever its
\* scheme, path and query.
C5_SocialMediaHostInvalid ==
    (va_pc \in {"validated", "done"} /\ OnBlockedHost(va_url))
        => va_result.valid = FALSE

\* C5 witness: https://facebook.com/jobs/post123, a well-formed URL with
\* 'jobs' in its path, has been analyzed and rejected.
C5_Witness ==
    /\ va_pc = "done"
    /\ va_url = "https://facebook.com/jobs/post123"
    /\ OnBlockedHost(va_url)
    /\ va_result.valid = FALSE

\* C6: a valid URL with 'careers' in its path whose host is no named job
\* board has the provider "Company Career Page" in the result of
\* validate_and_analyze_url and of _detect_provider; on the host of a named
\* board the board's name is reported by both.
C6_CareersPathIsCompanyCareerPage ==
    (va_pc = "done" /\ va_result.valid)
    => /\ (Contains(Lower(UrlParse(va_url).path), "careers") /\ ~OnNamedBoard(va_url))
            => /\ va_result.platform_info.provider = "Company Career Page"
               /\ va_detected.value = "Company Career Page"
       /\ \A i \in 1..(Len(SUPPORTED_PLATFORMS) - 1) :
            HostIn(va_url, SUPPORTED_PLATFORMS[i].domains[1])
            => /\ va_result.platform_info.provider = ProviderName(i)
               /\ va_detected.value = ProviderName(i)

-----------------------------------------------------------------------------
(***************************************************************************)
(* Properties of the profile normalizer (SpecNorm)                         *)
(***************************************************************************)
\* the profile holds the single entry key: text
SingleTextEntry(profile, key) ==
    /\ Len(profile.kids) = 1
    /\ profile.kids[1].k = key
    /\ profile.kids[1].v.t = "str"

\* the slot of a variant in a returned CareerBackground, as a sequence of
\* length 0 (no such slot) or 1: an attribute of the object or an entry of
\* its careers dict
SlotOf(career_background, variant) ==
    IF variant \in DOMAIN career_background THEN <<career_background[variant]>>
    ELSE LET Values(hits) == [i \in 1..Len(hits) |-> hits[i].v]
         IN  Values(SelectSeq(career_background.careers, LAMBDA e : e.k = variant))

\* C7: for a raw profile whose only entry is the key 'data pipeline
\* experience' with a text value, normalize assigns that text to the
\* data_engineering category through the direct-key substring match; the
\* list distribution, the text distribution and the global fallback do not
\* run to produce the assignment.
C7_DirectKeyMatchAssigns ==
    (nz_pc = "done" /\ SingleTextEntry(profile_data, "data pipeline experience"))
    => /\ nz_strategy = <<"direct_key">>
       /\ career_variants["data_engineering"] = Some(profile_data.kids[1].v.s)

\* C8: for a raw profile with no recognized career key whose content is one
\* string blob that mentions Spark, normalize reaches the global fallback
\* and the data_engineering slot of the returned profile holds the segment
\* that mentions Spark.
C8_SparkBlobReachesDataEngineering ==
    (/\ nz_pc = "done"
     /\ SingleTextEntry(profile_data, "notes")
     /\ Contains(profile_data.kids[1].v.s, "Spark"))
    => /\ nz_strategy = <<"none", "global_fallback">>
       /\ \E slot \in Range(SlotOf(nz_result.career_background, "data_engineering")) :
             Truthy(slot) /\ Contains(slot[1], "Spark")

\* C10: the profile normalize returns holds every declared career variant
\* slot (data_science, data_engineering, computer_vision, cto): a slot that
\* received content carries that content, a slot that received none is
\* present with an empty value; nothing is dropped between the assignment
\* and the returned profile.
C10_EverySlotReturned ==
    nz_pc = "done" =>
        \A v \in VariantSet :
            /\ Len(SlotOf(nz_result.career_background, v)) = 1
            /\ Truthy(career_variants[v])
                  => SlotOf(nz_result.career_background, v) = <<career_variants[v]>>

-----------------------------------------------------------------------------
(***************************************************************************)
(* Properties of the modificator (SpecMod)                                 *)
(***************************************************************************)
\* the reply to call i is a cover letter the validation accepts
ValidCoverLetterReply(i) ==
    /\ ~llm_replies[i].raises
    /\ {"title", "body", "key_points_used"} \subseteq DOMAIN llm_replies[i].result

\* C9: when apply_modifications is called with a cover letter and exactly
\* one feedback item and the modification stage returns a cover letter whose
\* body equals the original body, the stage is invoked exactly twice (the
\* first call and one retry whose feedback text carries the appended
\* instruction) and the value returned is the output of the retry, also when
\* that output is still identical to the original.
C9_IdenticalBodyRetriedOnce ==
    (/\ md_pc = "done"
     /\ original_content.type = "CoverLetterResponse"
     /\ Len(selected_feedback) = 1
     /\ ValidCoverLetterReply(1)
     /\ llm_replies[1].result.body = original_content.body
     /\ ValidCoverLetterReply(2))
    => /\ Len(chain_calls) = 2
       /\ chain_calls[2].selected_feedback
            = FormatSelectedFeedback(selected_feedback) \o RetryInstruction
       /\ md_result.modified_output = CoverLetterResponse(llm_replies[2].result)

-----------------------------------------------------------------------------
(***************************************************************************)
(* Properties of successive normalize calls (SpecNormCalls)                *)
(***************************************************************************)
\* C11: normalize is deterministic and stateless: any two finished calls that
\* were handed the same raw profile, whatever calls ran before or between
\* them, returned the same UserProfile.
C11_SameProfileSameResult ==
    \A i, j \in 1..Len(nz_returns) :
        nz_raw[nz_returns[i].object] = nz_raw[nz_returns[j].object]
            => nz_returns[i].result = nz_returns[j].result

\* three calls have returned: the first and the third on one dict that has an
\* education entry, the second on a different profile with a different result
C11_Witness ==
    /\ Len(nz_returns) = 3
    /\ nz_returns[1].object = nz_returns[3].object
    /\ nz_returns[2].object # nz_returns[1].object
    /\ HasKey(nz_raw[nz_returns[1].object], "education")
    /\ nz_returns[1].result.education_background = "MSc in Physics"
    /\ nz_returns[2].result # nz_returns[1].result
    /\ nz_returns[3].result = nz_returns[1].result

-----------------------------------------------------------------------------
(***************************************************************************)
(* Properties of retry_with_backoff (SpecRetry)                            *)
(***************************************************************************)
\* an invocation that failed with an error of category network, timeout or
\* rate_limit
TransientFailure(o) ==
    /\ o.class # "return"
    /\ IsJobAgentError(o)
    /\ o.category \in {"network", "timeout", "rate_limit"}

\* an invocation that failed in any other way
OtherFailure(o) == o.class # "return" /\ ~TransientFailure(o)

\* C12: under the default configuration func is invoked again only after a
\* failure of category network, timeout or rate_limit; any other failure
\* (another category, or an exception without a category) is not followed by
\* another invocation: it propagates at once and no delay follows it.
C12_OnlyTransientFailuresRetried ==
    (rt_pc # "idle" /\ rt_config.retryable_errors = DefaultRetryable) =>
        \A k \in 1..Len(rt_trace) :
            OtherFailure(rt_trace[k]) =>
                /\ k = Len(rt_trace)
                /\ rt_pc = "raised"
                /\ Len(rt_sleeps) = k - 1

\* every invocation so far failed with an error the configuration retries
AllRetryable ==
    \A k \in 1..Len(rt_trace) :
        /\ rt_trace[k].class # "return"
        /\ IsJobAgentError(rt_trace[k])
        /\ rt_trace[k].category \in rt_config.retryable_errors

RetryBounded ==
    rt_pc # "idle" =>
        /\ Len(rt_trace) <= rt_config.max_attempts
        /\ \A k \in 1..Len(rt_trace) :
              rt_trace[k].class = "return" =>
                  /\ k = Len(rt_trace)
                  /\ rt_pc = "returned"
                  /\ rt_outcome = rt_trace[k]
        /\ (Len(rt_trace) = rt_config.max_attempts /\ Len(rt_trace) > 0 /\ AllRetryable) =>
               /\ rt_pc = "raised"
               /\ rt_outcome = rt_trace[Len(rt_trace)]
        /\ Len(rt_sleeps) = IF rt_pc = "loop" \/ rt_trace = <<>> THEN Len(rt_trace)
                            ELSE Len(rt_trace) - 1
        /\ \A a \in 0..(Len(rt_sleeps) - 1) :
              rt_sleeps[a + 1] =
                  Min(rt_config.base_delay * Pow(rt_config.backoff_factor, a),
                      rt_config.max_delay)

\* C13: retry_with_backoff terminates after at most max_attempts invocations:
\* a first success at invocation k is returned after exactly k invocations,
\* max_attempts retryable failures end with the last error raised, and the
\* delay after failed attempt a is min(base_delay * backoff_factor^a, max_delay).
C13_BoundedAttemptsAndDelays ==
    /\ []RetryBounded
    /\ <>(rt_pc \in {"returned", "raised"})

\* two retryable failures, then the third invocation succeeds; the second
\* delay is cut to max_delay
C13_Witness ==
    /\ rt_pc = "returned"
    /\ rt_config.max_attempts = 3
    /\ Len(rt_trace) = 3
    /\ rt_outcome = FuncReturn
    /\ rt_config.base_delay = 3 /\ rt_config.max_delay = 4
    /\ rt_sleeps = <<3, 4>>

-----------------------------------------------------------------------------
(***************************************************************************)
(* The shape of the validate_and_analyze_url result (SpecUrl)              *)
(***************************************************************************)
\* C16: the dict returned by validate_and_analyze_url always has a boolean
\* 'valid' and a 'warnings' list; when valid is false it has an 'error' string
\* and no platform info; when valid is true it has platform_info and warnings
\* is non-empty exactly when platform_info.requires_login is true.
C16_ResultHasValidAndWarnings ==
    va_pc \in {"validated", "done"} =>
        /\ "valid" \in DOMAIN va_result
        /\ va_result.valid \in BOOLEAN
        /\ "warnings" \in DOMAIN va_result
        /\ ~va_result.valid =>
              /\ "error" \in DOMAIN va_result
              /\ Len(va_result.error) > 0
              /\ ("platform_info" \in DOMAIN va_result => IsNone(va_result.platform_info))
        /\ va_result.valid =>
              /\ "platform_info" \in DOMAIN va_result
              /\ va_result.platform_info # None
              /\ (Len(va_result.warnings) > 0 <=> va_result.platform_info.requires_login)

-----------------------------------------------------------------------------
(***************************************************************************)
(* Properties of JobDescriptionLoader.load (SpecLoad)                      *)
(***************************************************************************)
\* C15: load called with a URL that fails validation issues no fetch and
\* raises, at once, a JobAgentError of category validation whose user-facing
\* message differs from its internal message.
C15_InvalidUrlIsValidationError ==
    (ld_pc \in {"returned", "raised"} /\ ~IsValidUrl(ld_url)) =>
        /\ ld_fetches = <<>>
        /\ ld_pc = "raised"
        /\ IsJobAgentError(ld_outcome)
        /\ ld_outcome.category = "validation"
        /\ ld_outcome.user_message # ld_outcome.message

-----------------------------------------------------------------------------
(***************************************************************************)
(* Properties of the pipeline (SpecPipeline)                               *)
(***************************************************************************)
\* the calls of load made by the request
LoadCalls == SelectSeq(pl_calls, LAMBDA c : c.step = "load")

\* C14: a request fails on a load error of category network, timeout or
\* rate_limit only after load has been attempted again (with backoff, up to
\* the bounded number of attempts).
C14_TransientLoadFailureRetried ==
    (/\ pl_pc = "raised"
     /\ Len(LoadCalls) > 0
     /\ IsJobAgentError(pl_outcome)
     /\ pl_outcome.category \in DefaultRetryable)
    => Len(LoadCalls) > 1

\* the steps of a request in their fixed order; step 4 is the writer method
\* of the chain
StepOrder ==
    <<"load", "normalize", "collect_data",
      IF pl_request.kind = "cover_letter" THEN "write_cover_letter" ELSE "answer_question",
      "provide_feedback">>

\* the calls made so far are the first steps of the fixed order, each once,
\* and nothing follows a failed load
StepsInOrder ==
    /\ Len(pl_calls) <= Len(StepOrder)
    /\ \A k \in 1..Len(pl_calls) : pl_calls[k].step = StepOrder[k]
    /\ \A k \in 1..Len(pl_calls) : pl_calls[k].raised => (k = 1 /\ Len(pl_calls) = 1)
    /\ pl_pc = "raised" => Len(pl_calls) <= 1

\* C17 as stated: the steps run in the fixed order, each at most once, each
\* after the previous one returned and with the previous one's output among
\* its arguments; a failed load is followed by no step.
C17_EachStepReceivesPreviousOutput ==
    pl_pc # "idle" =>
        /\ StepsInOrder
        /\ \A k \in 2..Len(pl_calls) :
              \E a \in 1..Len(pl_calls[k].args) : pl_calls[k].args[a] = pl_calls[k - 1].result

\* C17 (amended): the steps run in the fixed order, each at most once and
\* after the previous one returned; normalize receives the profile of the
\* request, the relevance stage the job description and the normalized
\* profile, the generation stage the job description and the relevance
\* output, the feedback stage the generated content, the job description and
\* the relevance output; a failed load is followed by no step.
C17_StepsInOrderWithDataFlow ==
    pl_pc # "idle" =>
        /\ StepsInOrder
        /\ Len(pl_calls) >= 2 => pl_calls[2].args = <<pl_request.user_profile>>
        /\ Len(pl_calls) >= 3 =>
              pl_calls[3].args = <<pl_calls[1].result, pl_calls[2].result>>
        /\ Len(pl_calls) >= 4 =>
              SubSeq(pl_calls[4].args, 1, 2) = <<pl_calls[1].result, pl_calls[3].result>>
        /\ Len(pl_calls) >= 5 =>
              pl_calls[5].args =
                  <<pl_calls[4].result, pl_calls[1].result, pl_calls[3].result>>
        /\ pl_pc = "returned" =>
              /\ Len(pl_calls) = 5
              /\ pl_outcome = <<pl_calls[4].result, pl_calls[5].result,
                                pl_calls[1].result, pl_calls[3].result>>

\* a request ran all five steps on a loaded page and a profile with content
C17_Witness ==
    /\ pl_pc = "returned"
    /\ Len(pl_calls) = 5
    /\ pl_request.user_profile = EngineerProfileDict
    /\ pl_calls[1].result.title = Some("Data Engineer | Acme")
    /\ pl_calls[2].result.education_background = "MSc in Physics"
    /\ pl_calls[3].result.selected_profile_version = "Data Engineer"
    /\ pl_calls[5].result.feedback_items # <<>>

-----------------------------------------------------------------------------
(***************************************************************************)
(* Properties of the session manager                                       *)
(***************************************************************************)
\* the stored document is there and its last update is not more than
\* session_timeout before now
Live(doc, now) ==
    /\ ~IsNone(doc)
    /\ now - fromisoformat(doc[1].updated_at) <= sm_timeout

\* messages is list before followed by one message of this type and content
IsAppended(messages, before, message_type, content) ==
    /\ Len(messages) = Len(before) + 1
    /\ SubSeq(messages, 1, Len(before)) = before
    /\ PyEq(messages[Len(messages)].type, message_type)
    /\ messages[Len(messages)].content = content

\* messages carries, in call order, what add_message was given
InInsertionOrder(messages, given) ==
    /\ Len(messages) = Len(given)
    /\ \A i \in 1..Len(given) :
          /\ PyEq(messages[i].type, given[i][1])
          /\ messages[i].content = given[i][2]

\* C18: add_message on a live session appends exactly one message at the
\* end of the history: the stored and the returned message list are the
\* previous list, unchanged and in the same order, followed by the new
\* message with the given type and content; current_job_url,
\* current_profile_id and created_at are unchanged; get_messages returns
\* the messages in insertion order.
C18_AddMessageAppendsOne ==
    /\ (sm_last.op = "add_message" /\ Live(sm_last.before, sm_now)) =>
          /\ ~IsNone(sm_last.ret)
          /\ ~IsNone(sm_files[sm_last.session_id])
          /\ LET Holds(before, returned, stored) ==
                    /\ IsAppended(returned.messages, before.messages,
                                  sm_last.args.message_type, sm_last.args.content)
                    /\ IsAppended(stored.messages, before.messages,
                                  sm_last.args.message_type, sm_last.args.content)
                    /\ returned.current_job_url = before.current_job_url
                    /\ stored.current_job_url = before.current_job_url
                    /\ returned.current_profile_id = before.current_profile_id
                    /\ stored.current_profile_id = before.current_profile_id
                    /\ returned.created_at = fromisoformat(before.created_at)
                    /\ stored.created_at = before.created_at
             IN Holds(sm_last.before[1], sm_last.ret[1],
                      sm_files[sm_last.session_id][1])
    /\ (sm_last.op = "get_messages" /\ Live(sm_last.before, sm_now)) =>
          InInsertionOrder(sm_last.ret, sm_log[sm_last.session_id])

\* add_message, given a member of MessageType, has extended the history of a
\* live session that already held a message and had a job URL
C18_Witness ==
    /\ sm_last.op = "add_message"
    /\ Live(sm_last.before, sm_now)
    /\ Len(sm_last.before[1].messages) = 1
    /\ sm_last.args.message_type.t = "MessageType"
    /\ ~IsNone(sm_last.before[1].current_job_url)

\* the session was deleted with delete_session, or its last update lies more
\* than session_timeout in the past
Gone(session_id, doc, now) ==
    \/ session_id \in sm_deleted
    \/ /\ ~IsNone(doc)
       /\ now - fromisoformat(doc[1].updated_at) > sm_timeout

\* C19: a session that was deleted with delete_session, or whose last update
\* lies more than session_timeout in the past, is never returned by
\* get_session again; set_current_job_url, set_current_profile_id,
\* add_message and clear_messages for that id return None and leave no
\* stored session for the id, and get_messages returns an empty list.
C19_DeadSessionStaysDead ==
    (/\ sm_last.op \in {"get_session", "set_current_job_url",
                        "set_current_profile_id", "add_message",
                        "clear_messages", "get_messages"}
     /\ Gone(sm_last.session_id, sm_last.before, sm_now)) =>
        /\ IF sm_last.op = "get_messages" THEN sm_last.ret = <<>>
           ELSE IsNone(sm_last.ret)
        /\ IsNone(sm_files[sm_last.session_id])

\* add_message was called for a session that held a message and whose last
\* update was more than session_timeout ago
C19_Witness ==
    /\ sm_last.op = "add_message"
    /\ ~IsNone(sm_last.before)
    /\ sm_now - fromisoformat(sm_last.before[1].updated_at) > sm_timeout
    /\ Len(sm_last.before[1].messages) > 0

-----------------------------------------------------------------------------
(***************************************************************************)
(* Properties of the profile storage                                       *)
(***************************************************************************)
\* the positions of the stored profiles with is_default = true
Defaults(data) == {i \in 1..Len(data.profiles) : data.profiles[i].is_default}

\* the call just made set a default: create_profile with is_default = true,
\* or set_default_profile / update_profile with is_default = true on an
\* existing profile
SetsDefault ==
    \/ ps_last.op = "create_profile" /\ ps_last.request.is_default
    \/ ps_last.op = "set_default_profile"
          /\ PositionsOf(ps_last.before, ps_last.profile_id) # {}
    \/ ps_last.op = "update_profile"
          /\ ps_last.request.is_default = Some(TRUE)
          /\ PositionsOf(ps_last.before, ps_last.profile_id) # {}

\* C20: after any sequence of create_profile, update_profile,
\* set_default_profile and delete_profile at most one stored profile has
\* is_default = true; right after a call that sets a default, that profile
\* is the only default and get_default_profile returns it.
C20_AtMostOneDefault ==
    /\ Cardinality(Defaults(ps_data)) <= 1
    /\ SetsDefault =>
          /\ Defaults(ps_data) # {}
          /\ Defaults(ps_data) = PositionsOf(ps_data, ps_last.profile_id)
          /\ LET Returned(r) ==
                    /\ ~IsNone(r)
                    /\ r[1].id = ps_last.profile_id
                    /\ r[1].is_default
             IN Returned(get_default_profile(ps_data).ret)

\* update_profile with is_default = true was applied to a profile while
\* another profile was the default
C20_Witness ==
    /\ ps_last.op = "update_profile"
    /\ ps_last.request.is_default = Some(TRUE)
    /\ PositionsOf(ps_last.before, ps_last.profile_id) # {}
    /\ \E j \in Defaults(ps_last.before) :
          ps_last.before.profiles[j].id # ps_last.profile_id

-----------------------------------------------------------------------------
(***************************************************************************)
(* Further properties of _parse_html_content                               *)
(***************************************************************************)
\* no h1 and no job-title class/attribute element is on the page
NoHeadingElement(soup) ==
    \A i \in 1..Len(soup), k \in 1..(Len(TitleSelectors) - 1) :
        ~SelectorMatches(TitleSelectors[k], soup[i])

\* the segment of the <title> text the job title is expected in
TitleSegment(title_text) ==
    IF Contains(title_text, "|")
    THEN Strip(Split(title_text, "|")[1])
    ELSE IF Contains(title_text, "-")
    THEN Strip(Split(title_text, "-")[Len(Split(title_text, "-"))])
    ELSE title_text

\* C21: when the job title can only come from the page <title> element, the
\* extracted title is one segment of the <title> text (the first for '|',
\* otherwise the last for '-'), never the full unsplit text; the title is
\* absent or a string longer than 5 characters.
C21_PageTitleIsSplit ==
    ex_pc # "start" =>
        /\ IsNone(title) \/ Len(title[1]) > MinTitleLen
        /\ LET Holds(soup, page) ==
                   (NoHeadingElement(soup) /\ Len(page) = 1 /\ ~IsNone(title))
                       => title[1] = TitleSegment(ElementText(page[1]))
               Of(soup) == Holds(soup, SelectOne(soup, "title"))
           IN  Of(Decompose(BeautifulSoup(html_content)))

\* the line starts with a capital letter
StartsWithCapital(line) == Ch(line, 1) \in UpperSet

\* C22: a section block captured after a recognized header runs up to the
\* next blank line or the next line that starts with a capital letter: a
\* non-blank line under the header that starts with a lowercase letter, a
\* bullet or a digit stays inside the block and its items are extracted.
C22_BlockRunsToCapitalLine ==
    ex_pc \in {"lists", "summary", "done", "raised"} =>
        \A header \in SectionHeaders, choice \in LineChoices :
            html_content = SectionPage(header, choice) =>
                \A i \in 1..Len(choice) :
                    (\A j \in 1..i : ~StartsWithCapital(SectionLines[choice[j]]))
                        => CleanLine(SectionLines[choice[i]]) \in
                               Range(IF header = "Responsibilities:"
                                     THEN responsibilities ELSE requirements)


-----------------------------------------------------------------------------
(***************************************************************************)
(* Further properties of ProfileNormalizer                                 *)
(***************************************************************************)
\* the sections of a text block that contain a keyword of some category
MatchingSections(sections) ==
    SelectSeq(sections, LAMBDA section : VariantOf(Lower(section)) # 0)

\* C23: in text-block distribution, when some section of the text contains
\* a category keyword, a section without any keyword is assigned to no
\* category, whatever its position; a keyword-free section is assigned only
\* when no section of the text matches
C23_KeywordFreeSectionUnassigned ==
    (nz_pc = "assigned" /\ nz_strategy = <<"text">>) =>
        LET Holds(sections) ==
                Len(MatchingSections(sections)) > 0 =>
                    \A i \in 1..Len(sections) :
                        VariantOf(Lower(sections[i])) = 0 =>
                            \A v \in VariantSet :
                                career_variants[v] # Some(Strip(sections[i]))
        IN  Holds(SplitSections(FindCareerData(profile_data)[1].s))


-----------------------------------------------------------------------------
(***************************************************************************)
(* Further properties of validate_and_analyze_url                          *)
(***************************************************************************)
\* the named job boards: every platform entry but company_careers
NamedBoards == {i \in 1..Len(SUPPORTED_PLATFORMS) :
                  SUPPORTED_PLATFORMS[i].key # "company_careers"}

\* C24: a valid URL is reported as a named job board, with the board's
\* requires_login flag and recommendation, only when the host of the URL is
\* the board's domain or a subdomain of it, and _detect_provider names the
\* provider that validate_and_analyze_url reports
C24_BoardNamedOnlyOnItsHost ==
    (va_pc = "done" /\ va_result.valid) =>
        /\ \A i \in NamedBoards :
              va_result.platform_info.provider = ProviderName(i) =>
                  /\ HostIn(va_url, SUPPORTED_PLATFORMS[i].domains[1])
                  /\ va_result.platform_info.requires_login
                        = SUPPORTED_PLATFORMS[i].requires_login
                  /\ va_result.platform_info.recommendation
                        = SUPPORTED_PLATFORMS[i].recommendation
        /\ va_detected.value = va_result.platform_info.provider


-----------------------------------------------------------------------------
(***************************************************************************)
(* Further properties of the modificator                                   *)
(***************************************************************************)
\* the compared text field of the first result of the stage, when the stage
\* was invoked and its reply passed the validation: body for a cover
\* letter, answer for a question answer
FirstResultText ==
    IF Len(chain_calls) = 0 \/ llm_replies[1].raises THEN None
    ELSE IF original_content.type = "CoverLetterResponse"
         THEN IF ValidCoverLetterReply(1) THEN Some(llm_replies[1].result.body)
              ELSE None
         ELSE IF "answer" \in DOMAIN llm_replies[1].result
              THEN Some(llm_replies[1].result.answer) ELSE None

\* the stage was invoked at most twice, and a second time exactly when the
\* first result and the original are related by Same and feedback was given
RetriedExactlyWhen(Same(_, _)) ==
    /\ Len(chain_calls) <= 2
    /\ Len(chain_calls) = 2
          <=> /\ ~IsNone(FirstResultText)
              /\ Len(selected_feedback) > 0
              /\ Same(ComparedText(original_content), FirstResultText[1])

-----------------------------------------------------------------------------
(***************************************************************************)
(* Properties of handle_llm_errors (SpecErrors)                            *)
(***************************************************************************)
\* C26: every failure that escapes a function wrapped by handle_llm_errors
\* is a JobAgentError with a category of the taxonomy, and an exception that
\* is not a JobAgentError leaves the wrapper as an LLMError of category llm,
\* whatever its message.
C26_OnlyJobAgentErrorsEscape ==
    he_pc = "raised" =>
        /\ IsJobAgentError(he_outcome)
        /\ he_outcome.category \in ErrorCategory
        /\ ~IsJobAgentError(he_func) =>
              he_outcome.class = "LLMError" /\ he_outcome.category = "llm"


-----------------------------------------------------------------------------
(***************************************************************************)
(* Further properties of the generation pipeline                           *)
(***************************************************************************)
\* the request carries a job description text and no URL
TextOnly(request) ==
    ~Truthy(request.job_description_url) /\ Truthy(request.job_description_text)

\* the request carries neither a URL nor a text
NoJobDescription(request) ==
    ~Truthy(request.job_description_url) /\ ~Truthy(request.job_description_text)

\* C27: a request with job_description_text and no job_description_url is
\* processed: the text is parsed into a job posting (the method does not
\* fail at step 1) and the pipeline goes on with normalize; a request with
\* neither field fails with a validation-type error before any stage is
\* invoked.
C27_TextOnlyRequestProcessed ==
    pl_pc # "start" =>
        /\ TextOnly(pl_request) =>
              /\ pl_pc # "raised"
              /\ pl_locals.job_description # NoLocals.job_description
        /\ NoJobDescription(pl_request) =>
              /\ pl_pc = "raised"
              /\ pl_calls = <<>>
              /\ pl_outcome.class \in {"ValueError", "ValidationError"}


\* the category-name to story entries of career_background.careers of a
\* canonical profile dict
CareersOf(profile) == Get(Get(profile, "career_background"), "careers").kids

\* C28: normalizing a profile that is already in canonical shape, as the
\* pipeline does with request.user_profile.dict(), preserves its content:
\* every entry of the input's career_background.careers is present in
\* career_background.careers of the returned profile, and
\* education_background and motivation are returned unchanged.
C28_CanonicalProfilePreserved ==
    pl_pc \in {"normalized", "collected", "written", "returned"} =>
        LET Holds(profile, normalized) ==
                /\ \A i \in 1..Len(CareersOf(profile)) :
                      \E j \in 1..Len(normalized.career_background.careers) :
                          normalized.career_background.careers[j] = CareersOf(profile)[i]
                /\ normalized.education_background
                      = Get(profile, "education_background").s
                /\ normalized.motivation = Get(profile, "motivation").s
        IN  Holds(pl_request.user_profile, pl_locals.normalized_profile)


-----------------------------------------------------------------------------
(***************************************************************************)
(* Further properties of the profile storage                               *)
(***************************************************************************)
\* C29: in every state of the profile store default_profile_id agrees with
\* the is_default flags: it is the id of a stored profile whose is_default
\* is true, or null when no stored profile has is_default = true; so
\* get_default_profile returns only a profile whose is_default is true, and
\* nothing after update_profile(P, is_default = false) on the default P.
C29_DefaultIdAgreesWithFlags ==
    /\ IF Defaults(ps_data) = {} THEN IsNone(ps_data.default_profile_id)
       ELSE \E i \in Defaults(ps_data) :
               ps_data.default_profile_id = Some(ps_data.profiles[i].id)
    /\ LET FlagSet(r) == IsNone(r) \/ r[1].is_default
       IN  FlagSet(get_default_profile(ps_data).ret)
    /\ (/\ ps_last.op = "update_profile"
        /\ ps_last.request.is_default = Some(FALSE)
        /\ ps_last.before.default_profile_id = Some(ps_last.profile_id))
           => IsNone(get_default_profile(ps_data).ret)


-----------------------------------------------------------------------------
(***************************************************************************)
(* Properties of the session manager under concurrent requests             *)
(* (SpecConcurrent)                                                        *)
(***************************************************************************)
\* every request has returned
AllDone == \A r \in Requests : cc_requests[r].pc = "done"

\* the stored document of the shared session, an Optional value
StoredSession == cc_files[SharedSession]

\* the stored session shows what request r did
EffectStored(r) ==
    /\ ~IsNone(StoredSession)
    /\ IF cc_requests[r].method = "add_message"
       THEN \E i \in 1..Len(StoredSession[1].messages) :
               StoredSession[1].messages[i].id = MessageIdOf(r)
       ELSE StoredSession[1].current_job_url = Some(SharedJobUrl)

====
